---- MODULE Spec2Model ----
(***************************************************************************)
(* State-machine model of the magic-loc-protocol crate: the anchor-side    *)
(* and tag-side type-state machines of the multi-anchor AltDS-TWR          *)
(* exchange and their type-erased wrappers.                                *)
(*                                                                         *)
(* A heapless::Vec is a sequence; a Rust index i (0-based) addresses       *)
(* element i + 1 of the sequence.  Option<T> / Result<T, ()> values that   *)
(* carry a payload are sequences of length at most one: <<>> is None or    *)
(* Err(()), <<x>> is Some(x) or Ok(x).  A machine is a record of its       *)
(* fields, the type parameter STATE being the field "state"; a wrapper is  *)
(* a record of the enum variant and the machine the variant carries.       *)
(***************************************************************************)
EXTENDS Integers, Sequences, FiniteSets, TLC

\* ------------------------------------------------------------------------
\* Bounds of the model
\* ------------------------------------------------------------------------

\* Timestamps are drawn from 0..MaxTs.
MaxTs == 1

\* Peer lists have at most MaxPeers entries.
MaxPeers == 2

\* A tag machine is written at most MaxWrites times in one run.
MaxWrites == 1

Ts == 0..MaxTs

\* The network addresses used in peer lists.
Addrs == {10, 11}

RECURSIVE ListsUpTo(_)
ListsUpTo(n) ==
    IF n = 0 THEN {<<>>}
    ELSE LET shorter == ListsUpTo(n - 1)
         IN  shorter \cup {Append(l, a) : l \in {s \in shorter : Len(s) = n - 1}, a \in Addrs}

\* Every list over Addrs of length at most MaxPeers, duplicates included.
AddrLists == ListsUpTo(MaxPeers)

\* The list given for a peer list that indexes no timestamp slot (not the
\* default, empty list).
InertLists == {<<10, 11>>}

\* The address a machine is constructed with (not the default 0).
OwnAddrs == {1}

\* Indices offered to index-addressed accessors: every valid one and the
\* first invalid one.
Indices == 0..MaxPeers

None == <<>>
Some(x) == <<x>>

Zeros(n) == [i \in 1..n |-> 0]

\* A slice index expression v[i]: in bounds iff i < v.len().
InBounds(v, i) == i >= 0 /\ i < Len(v)

\* v[i] = x for an index in bounds.
SetAt(v, i, x) == [v EXCEPT ![i + 1] = x]

\* v[i] for an index in bounds.
GetAt(v, i) == v[i + 1]

\* ------------------------------------------------------------------------
\* Variables
\* ------------------------------------------------------------------------
VARIABLES
    any_anchor,   \* Option<AnyAnchorSideStateMachine>: the wrapper, if one exists
    anchor_sm,    \* Option<AnchorSideStateMachine<_>>: a machine owned by value
    any_tag,      \* Option<AnyTagSideStateMachine>
    tag_sm,       \* Option<TagSideStateMachine<_>>
    tag_writes,   \* number of tag setter calls made so far
    panicked,     \* TRUE once a call has panicked
    last,         \* the last call made and what it returned
    anchor_state_machines,  \* scenario test: Vec<AnyAnchorSideStateMachine>
    tag_state_machines,     \* scenario test: Vec<AnyTagSideStateMachine>
    scn,          \* scenario test: the statement reached and whether it panicked
    packet,       \* codec: the packet under test
    wire,         \* codec: Option<bytes>, the encoded packet
    decoded,      \* codec: Option<packet>, what decoding the bytes gave
    air           \* airtime: Option<call>, the arguments of frame_tx_time and what it computed

machine_vars == <<any_anchor, anchor_sm, any_tag, tag_sm, tag_writes, panicked, last>>
scenario_vars == <<anchor_state_machines, tag_state_machines, scn>>
codec_vars == <<packet, wire, decoded>>

\* The variables no state-machine call touches.
other_vars == <<scenario_vars, codec_vars, air>>

vars == <<machine_vars, scenario_vars, codec_vars, air>>

anchor_vars == <<any_anchor, anchor_sm>>
tag_vars == <<any_tag, tag_sm, tag_writes>>

\* The record of a call: role is the side called, op the method, p the phase a conversion or probe
\* asks for, via how the machine was reached ("typed": owned by value,
\* "view": through as_<phase>_mut of the wrapper), idx and addr and ts the
\* arguments (-1 when absent), res the outcome, out the payload returned.
\* hist is the history the properties refer to: new_args the arguments new
\* was called with, poll_given the timestamp given to the last successful
\* Idle -> WaitingForResponse transition of the anchor, set_in_phase the value
\* last written to each response slot of the anchor since that transition
\* (-1: none), set_ever the value last written to each response slot since
\* construction (0: none).
HistOfNew(address, anchors, tags) ==
    [new_args |-> [address |-> address, anchors |-> anchors, tags |-> tags],
     poll_given |-> -1,
     set_in_phase |-> [i \in 1..Len(tags) |-> -1],
     set_ever |-> [i \in 1..Len(tags) |-> 0]]

HistAfter(h, role, op, idx, ts, res) ==
    IF role = "anchor" /\ res = "Ok"
       /\ op \in {"waiting_for_response", "to_waiting_for_response", "any_waiting_for_response"}
    THEN [h EXCEPT !.poll_given = ts,
                   !.set_in_phase = [i \in 1..Len(h.new_args.tags) |-> -1]]
    ELSE IF role = "anchor" /\ op = "set_response_rx_ts" /\ res = "Unit"
    THEN [h EXCEPT !.set_in_phase[idx + 1] = ts, !.set_ever[idx + 1] = ts]
    ELSE h

Call(role, op, p, via, idx, addr, ts, res, out) ==
    [role |-> role, op |-> op, p |-> p, via |-> via, idx |-> idx, addr |-> addr, ts |-> ts,
     res |-> res, out |-> out, hist |-> HistAfter(last.hist, role, op, idx, ts, res)]

\* The record of the call of new that made the machine a run starts with.
CallOfNew(role, address, anchors, tags) ==
    [role |-> role, op |-> "new", p |-> "Idle", via |-> "typed", idx |-> -1, addr |-> -1,
     ts |-> -1, res |-> "Ok", out |-> None, hist |-> HistOfNew(address, anchors, tags)]

\* ------------------------------------------------------------------------
\* Anchor side: AnchorSideStateMachine<STATE>
\* ------------------------------------------------------------------------
AnchorPhases == {"Idle", "WaitingForResponse", "SendingFinal"}

\* #[derive(Default)] of AnchorSideStateMachine<STATE>
Anchor_default(state) ==
    [address |-> 0, anchor_addresses |-> <<>>, tags |-> <<>>,
     poll_tx_ts |-> 0, response_rx_ts |-> <<>>, state |-> state]

\* A new that stores the address in poll_tx_ts as well.
Anchor_new_poll_from_address(address, anchors, tags) ==
    [address |-> address, anchor_addresses |-> anchors,
     response_rx_ts |-> Zeros(Len(tags)), tags |-> tags,
     poll_tx_ts |-> address, state |-> "Idle"]

Anchor_new(address, anchors, tags) ==
    [address |-> address, anchor_addresses |-> anchors,
     response_rx_ts |-> Zeros(Len(tags)), tags |-> tags,
     poll_tx_ts |-> 0, state |-> "Idle"]

\* A waiting_for_response that starts the round with zeroed response slots.
Anchor_waiting_for_response_fresh_slots(self, poll_tx_ts) ==
    [tags |-> self.tags, poll_tx_ts |-> poll_tx_ts,
     response_rx_ts |-> Zeros(Len(self.tags)), state |-> "WaitingForResponse",
     address |-> self.address, anchor_addresses |-> self.anchor_addresses]

\* A waiting_for_response that moves the old poll_tx_ts like every other field.
Anchor_waiting_for_response_keeping_poll(self, poll_tx_ts) ==
    [tags |-> self.tags, poll_tx_ts |-> self.poll_tx_ts,
     response_rx_ts |-> self.response_rx_ts, state |-> "WaitingForResponse",
     address |-> self.address, anchor_addresses |-> self.anchor_addresses]

Anchor_waiting_for_response(self, poll_tx_ts) ==
    [tags |-> self.tags, poll_tx_ts |-> poll_tx_ts,
     response_rx_ts |-> self.response_rx_ts, state |-> "WaitingForResponse",
     address |-> self.address, anchor_addresses |-> self.anchor_addresses]

\* A sending_final that starts the final phase with fresh response slots.
Anchor_sending_final_fresh_slots(self) ==
    [tags |-> self.tags, poll_tx_ts |-> self.poll_tx_ts,
     response_rx_ts |-> Zeros(Len(self.tags)), state |-> "SendingFinal",
     address |-> self.address, anchor_addresses |-> self.anchor_addresses]

Anchor_sending_final(self) ==
    [tags |-> self.tags, poll_tx_ts |-> self.poll_tx_ts,
     response_rx_ts |-> self.response_rx_ts, state |-> "SendingFinal",
     address |-> self.address, anchor_addresses |-> self.anchor_addresses]

\* An idle that carries poll_tx_ts over like every other field.
Anchor_idle_keeping_poll(self) ==
    [tags |-> self.tags, poll_tx_ts |-> self.poll_tx_ts,
     response_rx_ts |-> self.response_rx_ts, state |-> "Idle",
     address |-> self.address, anchor_addresses |-> self.anchor_addresses]

\* An idle that clears the response timestamps on the way back to Idle.
Anchor_idle_clearing(self) ==
    [tags |-> self.tags, poll_tx_ts |-> 0,
     response_rx_ts |-> Zeros(Len(self.tags)), state |-> "Idle",
     address |-> self.address, anchor_addresses |-> self.anchor_addresses]

Anchor_idle(self) ==
    [tags |-> self.tags, poll_tx_ts |-> 0,
     response_rx_ts |-> self.response_rx_ts, state |-> "Idle",
     address |-> self.address, anchor_addresses |-> self.anchor_addresses]

\* set_response_rx_ts: the indexing panics when tag_idx is out of bounds,
\* before anything is written.
Anchor_set_response_rx_ts(self, tag_idx, response_rx_ts) ==
    IF InBounds(self.response_rx_ts, tag_idx)
    THEN [res |-> "Unit",
          sm |-> [self EXCEPT !.response_rx_ts = SetAt(@, tag_idx, response_rx_ts)]]
    ELSE [res |-> "Panic", sm |-> self]

\* A get_response_rx_ts that reads the first slot whatever the index.
Anchor_get_response_rx_ts_first(self, tag_idx) ==
    IF InBounds(self.response_rx_ts, tag_idx)
    THEN [res |-> "Value", out |-> Some(GetAt(self.response_rx_ts, 0))]
    ELSE [res |-> "Panic", out |-> None]

Anchor_get_response_rx_ts(self, tag_idx) ==
    IF InBounds(self.response_rx_ts, tag_idx)
    THEN [res |-> "Value", out |-> Some(GetAt(self.response_rx_ts, tag_idx))]
    ELSE [res |-> "Panic", out |-> None]

\* ------------------------------------------------------------------------
\* Anchor side: AnyAnchorSideStateMachine
\* ------------------------------------------------------------------------

\* core::mem::take: the value taken and the default left in its place.
Anchor_mem_take(sm) == [taken |-> sm, left |-> Anchor_default(sm.state)]

AnyAnchor_as_idle_mut(self) ==
    IF self.variant = "Idle" THEN Some(self.sm) ELSE None

AnyAnchor_as_waiting_for_response_mut(self) ==
    IF self.variant = "WaitingForResponse" THEN Some(self.sm) ELSE None

AnyAnchor_as_sending_final_mut(self) ==
    IF self.variant = "SendingFinal" THEN Some(self.sm) ELSE None

AnyAnchor_as_mut(self, p) ==
    CASE p = "Idle" -> AnyAnchor_as_idle_mut(self)
      [] p = "WaitingForResponse" -> AnyAnchor_as_waiting_for_response_mut(self)
      [] p = "SendingFinal" -> AnyAnchor_as_sending_final_mut(self)

\* waiting_for_response(mut self, ..) -> Result<Self, ()>; on Err the
\* wrapper, moved into the call, is dropped.
AnyAnchor_waiting_for_response(self, poll_tx_ts) ==
    IF self.variant = "Idle"
    THEN [res |-> "Ok",
          w |-> Some([variant |-> "WaitingForResponse",
                      sm |-> Anchor_waiting_for_response(self.sm, poll_tx_ts)])]
    ELSE [res |-> "Err", w |-> None]

AnyAnchor_to_waiting_for_response(self, poll_tx_ts) ==
    IF self.variant = "Idle"
    THEN LET t == Anchor_mem_take(self.sm)
         IN  [res |-> "Ok",
              w |-> [variant |-> "WaitingForResponse",
                     sm |-> Anchor_waiting_for_response(t.taken, poll_tx_ts)]]
    ELSE [res |-> "Err", w |-> self]

\* A to_sending_final that takes the machine before it looks at the variant.
AnyAnchor_to_sending_final_take_first(self) ==
    LET t == Anchor_mem_take(self.sm)
    IN  IF self.variant = "WaitingForResponse"
        THEN [res |-> "Ok",
              w |-> [variant |-> "SendingFinal",
                     sm |-> Anchor_sending_final(t.taken)]]
        ELSE [res |-> "Err", w |-> [self EXCEPT !.sm = t.left]]

AnyAnchor_to_sending_final(self) ==
    IF self.variant = "WaitingForResponse"
    THEN LET t == Anchor_mem_take(self.sm)
         IN  [res |-> "Ok",
              w |-> [variant |-> "SendingFinal",
                     sm |-> Anchor_sending_final(t.taken)]]
    ELSE [res |-> "Err", w |-> self]

\* A to_idle whose match arm also accepts WaitingForResponse.
AnyAnchor_to_idle_from_waiting(self) ==
    IF self.variant \in {"WaitingForResponse", "SendingFinal"}
    THEN LET t == Anchor_mem_take(self.sm)
         IN  [res |-> "Ok",
              w |-> [variant |-> "Idle",
                     sm |-> [Anchor_idle(t.taken) EXCEPT !.state = "Idle"]]]
    ELSE [res |-> "Err", w |-> self]

\* A to_idle that transitions the default left behind by mem::take instead
\* of the machine taken.
AnyAnchor_to_idle_leaving_default(self) ==
    IF self.variant = "SendingFinal"
    THEN LET t == Anchor_mem_take(self.sm)
         IN  [res |-> "Ok",
              w |-> [variant |-> "Idle", sm |-> Anchor_idle(t.left)]]
    ELSE [res |-> "Err", w |-> self]

AnyAnchor_to_idle(self) ==
    IF self.variant = "SendingFinal"
    THEN LET t == Anchor_mem_take(self.sm)
         IN  [res |-> "Ok",
              w |-> [variant |-> "Idle", sm |-> Anchor_idle(t.taken)]]
    ELSE [res |-> "Err", w |-> self]

\* TryInto<AnchorSideStateMachine<P>> for AnyAnchorSideStateMachine
AnyAnchor_try_into(self, p) ==
    IF self.variant = p THEN Some(self.sm) ELSE None

\* A From whose SendingFinal impl builds the WaitingForResponse variant.
AnyAnchor_from_wrong_variant(state_machine) ==
    [variant |-> IF state_machine.state = "SendingFinal"
                 THEN "WaitingForResponse" ELSE state_machine.state,
     sm |-> state_machine]

\* From<AnchorSideStateMachine<P>> for AnyAnchorSideStateMachine; the impl
\* chosen is the one of the machine's type parameter.
AnyAnchor_from(state_machine) ==
    [variant |-> state_machine.state, sm |-> state_machine]

\* TryFrom<&AnyAnchorSideStateMachine> for &AnchorSideStateMachine<P>
AnyAnchor_try_from_ref(state_machine, p) ==
    IF state_machine.variant = p THEN Some(state_machine.sm) ELSE None

\* ------------------------------------------------------------------------
\* Anchor side: the calls a holder of the machine can make
\* ------------------------------------------------------------------------

\* The machine in phase p as the caller can reach it: owned by value, or
\* through the wrapper's as_<p>_mut view.
AnchorReach(via, p) ==
    CASE via = "typed" ->
            IF anchor_sm # None /\ anchor_sm[1].state = p THEN anchor_sm ELSE None
      [] via = "view" ->
            IF any_anchor # None THEN AnyAnchor_as_mut(any_anchor[1], p) ELSE None

\* Writing the machine back where it was reached.
AnchorStore(via, sm) ==
    CASE via = "typed" -> anchor_sm' = Some(sm) /\ any_anchor' = any_anchor
      [] via = "view" -> any_anchor' = Some([any_anchor[1] EXCEPT !.sm = sm])
                         /\ anchor_sm' = anchor_sm

Vias == {"typed", "view"}

A_from ==
    /\ ~panicked
    /\ anchor_sm # None
    /\ any_anchor' = Some(AnyAnchor_from(anchor_sm[1]))
    /\ anchor_sm' = None
    /\ last' = Call("anchor", "from", anchor_sm[1].state, "typed", -1, -1, -1, "Ok", None)
    /\ UNCHANGED <<other_vars, tag_vars, panicked>>

A_try_into(p) ==
    /\ ~panicked
    /\ any_anchor # None
    /\ LET r == AnyAnchor_try_into(any_anchor[1], p)
       IN  /\ anchor_sm' = r
           /\ any_anchor' = None
           /\ last' = Call("anchor", "try_into", p, "any", -1, -1, -1,
                           IF r # None THEN "Ok" ELSE "Err", r)
    /\ UNCHANGED <<other_vars, tag_vars, panicked>>

A_try_from_ref(p) ==
    /\ ~panicked
    /\ any_anchor # None
    /\ LET r == AnyAnchor_try_from_ref(any_anchor[1], p)
       IN  last' = Call("anchor", "try_from_ref", p, "any", -1, -1, -1,
                        IF r # None THEN "Ok" ELSE "Err", r)
    /\ UNCHANGED <<other_vars, anchor_vars, tag_vars, panicked>>

A_as_mut(p) ==
    /\ ~panicked
    /\ any_anchor # None
    /\ LET r == AnyAnchor_as_mut(any_anchor[1], p)
       IN  last' = Call("anchor", "as_mut", p, "any", -1, -1, -1,
                        IF r # None THEN "Some" ELSE "None", None)
    /\ UNCHANGED <<other_vars, anchor_vars, tag_vars, panicked>>

A_any_waiting_for_response(ts) ==
    /\ ~panicked
    /\ any_anchor # None
    /\ LET r == AnyAnchor_waiting_for_response(any_anchor[1], ts)
       IN  /\ any_anchor' = r.w
           /\ last' = Call("anchor", "any_waiting_for_response", "", "any", -1, -1, ts, r.res, None)
    /\ UNCHANGED <<other_vars, anchor_sm, tag_vars, panicked>>

A_to_waiting_for_response(ts) ==
    /\ ~panicked
    /\ any_anchor # None
    /\ LET r == AnyAnchor_to_waiting_for_response(any_anchor[1], ts)
       IN  /\ any_anchor' = Some(r.w)
           /\ last' = Call("anchor", "to_waiting_for_response", "", "any", -1, -1, ts, r.res, None)
    /\ UNCHANGED <<other_vars, anchor_sm, tag_vars, panicked>>

A_to_sending_final ==
    /\ ~panicked
    /\ any_anchor # None
    /\ LET r == AnyAnchor_to_sending_final(any_anchor[1])
       IN  /\ any_anchor' = Some(r.w)
           /\ last' = Call("anchor", "to_sending_final", "", "any", -1, -1, -1, r.res, None)
    /\ UNCHANGED <<other_vars, anchor_sm, tag_vars, panicked>>

A_to_idle ==
    /\ ~panicked
    /\ any_anchor # None
    /\ LET r == AnyAnchor_to_idle(any_anchor[1])
       IN  /\ any_anchor' = Some(r.w)
           /\ last' = Call("anchor", "to_idle", "", "any", -1, -1, -1, r.res, None)
    /\ UNCHANGED <<other_vars, anchor_sm, tag_vars, panicked>>

\* The typed transitions of a machine owned by value.
A_waiting_for_response(ts) ==
    /\ ~panicked
    /\ AnchorReach("typed", "Idle") # None
    /\ anchor_sm' = Some(Anchor_waiting_for_response(anchor_sm[1], ts))
    /\ last' = Call("anchor", "waiting_for_response", "", "typed", -1, -1, ts, "Ok", None)
    /\ UNCHANGED <<other_vars, any_anchor, tag_vars, panicked>>

A_sending_final ==
    /\ ~panicked
    /\ AnchorReach("typed", "WaitingForResponse") # None
    /\ anchor_sm' = Some(Anchor_sending_final(anchor_sm[1]))
    /\ last' = Call("anchor", "sending_final", "", "typed", -1, -1, -1, "Ok", None)
    /\ UNCHANGED <<other_vars, any_anchor, tag_vars, panicked>>

A_idle ==
    /\ ~panicked
    /\ AnchorReach("typed", "SendingFinal") # None
    /\ anchor_sm' = Some(Anchor_idle(anchor_sm[1]))
    /\ last' = Call("anchor", "idle", "", "typed", -1, -1, -1, "Ok", None)
    /\ UNCHANGED <<other_vars, any_anchor, tag_vars, panicked>>

A_set_response_rx_ts(via, tag_idx, ts) ==
    /\ ~panicked
    /\ AnchorReach(via, "WaitingForResponse") # None
    /\ LET r == Anchor_set_response_rx_ts(AnchorReach(via, "WaitingForResponse")[1], tag_idx, ts)
       IN  /\ AnchorStore(via, r.sm)
           /\ panicked' = (r.res = "Panic")
           /\ last' = Call("anchor", "set_response_rx_ts", "", via, tag_idx, -1, ts, r.res, None)
    /\ UNCHANGED <<other_vars, tag_vars>>

A_get_response_rx_ts(via, tag_idx) ==
    /\ ~panicked
    /\ AnchorReach(via, "SendingFinal") # None
    /\ LET r == Anchor_get_response_rx_ts(AnchorReach(via, "SendingFinal")[1], tag_idx)
       IN  /\ panicked' = (r.res = "Panic")
           /\ last' = Call("anchor", "get_response_rx_ts", "", via, tag_idx, -1, -1, r.res, r.out)
    /\ UNCHANGED <<other_vars, anchor_vars, tag_vars>>

NextAnchor ==
    \/ A_from
    \/ \E p \in AnchorPhases : A_try_into(p)
    \/ \E p \in AnchorPhases : A_try_from_ref(p)
    \/ \E p \in AnchorPhases : A_as_mut(p)
    \/ \E ts \in Ts : A_any_waiting_for_response(ts)
    \/ \E ts \in Ts : A_to_waiting_for_response(ts)
    \/ A_to_sending_final
    \/ A_to_idle
    \/ \E ts \in Ts : A_waiting_for_response(ts)
    \/ A_sending_final
    \/ A_idle
    \/ \E via \in Vias, i \in Indices, ts \in Ts : A_set_response_rx_ts(via, i, ts)
    \/ \E via \in Vias, i \in Indices : A_get_response_rx_ts(via, i)

\* ------------------------------------------------------------------------
\* Tag side: TagSideStateMachine<STATE>
\* ------------------------------------------------------------------------
TagPhases == {"Idle", "WaitingForAnchorPoll", "WaitingForAnchorFinal"}

\* #[derive(Default)] of TagSideStateMachine<STATE>
Tag_default(state) ==
    [address |-> 0, anchors |-> <<>>, tags |-> <<>>,
     poll_tx_ts |-> <<>>, poll_rx_ts |-> <<>>, response_tx_ts |-> 0,
     response_rx_ts |-> <<>>, final_tx_ts |-> <<>>, final_rx_ts |-> <<>>,
     state |-> state]

\* A new that sizes the per-anchor timestamp arrays by the tag list.
Tag_new_slots_per_tag(address, anchors, tags) ==
    [address |-> address,
     poll_tx_ts |-> Zeros(Len(tags)), poll_rx_ts |-> Zeros(Len(tags)),
     response_rx_ts |-> Zeros(Len(tags)), final_tx_ts |-> Zeros(Len(tags)),
     final_rx_ts |-> Zeros(Len(tags)), response_tx_ts |-> 0,
     anchors |-> anchors, tags |-> tags, state |-> "Idle"]

Tag_new(address, anchors, tags) ==
    [address |-> address,
     poll_tx_ts |-> Zeros(Len(anchors)), poll_rx_ts |-> Zeros(Len(anchors)),
     response_rx_ts |-> Zeros(Len(anchors)), final_tx_ts |-> Zeros(Len(anchors)),
     final_rx_ts |-> Zeros(Len(anchors)), response_tx_ts |-> 0,
     anchors |-> anchors, tags |-> tags, state |-> "Idle"]

\* A waiting_for_anchor_poll that builds the machine with a new, empty tag list.
Tag_waiting_for_anchor_poll_without_tags(self) ==
    [address |-> self.address, anchors |-> self.anchors, tags |-> <<>>,
     poll_tx_ts |-> self.poll_tx_ts, poll_rx_ts |-> self.poll_rx_ts,
     response_tx_ts |-> self.response_tx_ts, response_rx_ts |-> self.response_rx_ts,
     final_tx_ts |-> self.final_tx_ts, final_rx_ts |-> self.final_rx_ts,
     state |-> "WaitingForAnchorPoll"]

Tag_waiting_for_anchor_poll(self) ==
    [address |-> self.address, anchors |-> self.anchors, tags |-> self.tags,
     poll_tx_ts |-> self.poll_tx_ts, poll_rx_ts |-> self.poll_rx_ts,
     response_tx_ts |-> self.response_tx_ts, response_rx_ts |-> self.response_rx_ts,
     final_tx_ts |-> self.final_tx_ts, final_rx_ts |-> self.final_rx_ts,
     state |-> "WaitingForAnchorPoll"]

\* A waiting_for_anchor_final that starts the phase with new, empty final
\* timestamp arrays.
Tag_waiting_for_anchor_final_fresh_final(self) ==
    [address |-> self.address, anchors |-> self.anchors, tags |-> self.tags,
     poll_tx_ts |-> self.poll_tx_ts, poll_rx_ts |-> self.poll_rx_ts,
     response_tx_ts |-> self.response_tx_ts, response_rx_ts |-> self.response_rx_ts,
     final_tx_ts |-> <<>>, final_rx_ts |-> <<>>,
     state |-> "WaitingForAnchorFinal"]

Tag_waiting_for_anchor_final(self) ==
    [address |-> self.address, anchors |-> self.anchors, tags |-> self.tags,
     poll_tx_ts |-> self.poll_tx_ts, poll_rx_ts |-> self.poll_rx_ts,
     response_tx_ts |-> self.response_tx_ts, response_rx_ts |-> self.response_rx_ts,
     final_tx_ts |-> self.final_tx_ts, final_rx_ts |-> self.final_rx_ts,
     state |-> "WaitingForAnchorFinal"]

\* An idle that hands back a machine with zeroed timestamps.
Tag_idle_zeroing(self) ==
    [address |-> self.address, anchors |-> self.anchors, tags |-> self.tags,
     poll_tx_ts |-> Zeros(Len(self.anchors)), poll_rx_ts |-> Zeros(Len(self.anchors)),
     response_tx_ts |-> 0, response_rx_ts |-> Zeros(Len(self.anchors)),
     final_tx_ts |-> Zeros(Len(self.anchors)), final_rx_ts |-> Zeros(Len(self.anchors)),
     state |-> "Idle"]

Tag_idle(self) ==
    [address |-> self.address, anchors |-> self.anchors, tags |-> self.tags,
     poll_tx_ts |-> self.poll_tx_ts, poll_rx_ts |-> self.poll_rx_ts,
     response_tx_ts |-> self.response_tx_ts, response_rx_ts |-> self.response_rx_ts,
     final_tx_ts |-> self.final_tx_ts, final_rx_ts |-> self.final_rx_ts,
     state |-> "Idle"]

\* A search that returns the index of the last matching element.
position_last(v, anchor_addr) ==
    IF \E i \in 1..Len(v) : v[i] = anchor_addr
    THEN Some((CHOOSE i \in 1..Len(v) :
                  /\ v[i] = anchor_addr
                  /\ \A j \in (i + 1)..Len(v) : v[j] # anchor_addr) - 1)
    ELSE None

\* self.anchors.iter().position(|&addr| addr == anchor_addr): the index of
\* the first element equal to anchor_addr, if there is one.
position(v, anchor_addr) ==
    IF \E i \in 1..Len(v) : v[i] = anchor_addr
    THEN Some((CHOOSE i \in 1..Len(v) :
                  /\ v[i] = anchor_addr
                  /\ \A j \in 1..(i - 1) : v[j] # anchor_addr) - 1)
    ELSE None

\* set_poll_tx_ts_idx: the indexing panics when anchor_idx is out of bounds.
Tag_set_poll_tx_ts_idx(self, anchor_idx, ts) ==
    IF InBounds(self.poll_tx_ts, anchor_idx)
    THEN [res |-> "Unit", sm |-> [self EXCEPT !.poll_tx_ts = SetAt(@, anchor_idx, ts)]]
    ELSE [res |-> "Panic", sm |-> self]

\* set_poll_tx_ts: unwrap() panics when the address is not found.
Tag_set_poll_tx_ts(self, anchor_addr, ts) ==
    LET anchor_idx == position(self.anchors, anchor_addr)
    IN  IF anchor_idx = None THEN [res |-> "Panic", sm |-> self]
        ELSE IF InBounds(self.poll_tx_ts, anchor_idx[1])
        THEN [res |-> "Unit", sm |-> [self EXCEPT !.poll_tx_ts = SetAt(@, anchor_idx[1], ts)]]
        ELSE [res |-> "Panic", sm |-> self]

\* set_poll_rx_ts_idx: the indexing panics when anchor_idx is out of bounds.
Tag_set_poll_rx_ts_idx(self, anchor_idx, ts) ==
    IF InBounds(self.poll_rx_ts, anchor_idx)
    THEN [res |-> "Unit", sm |-> [self EXCEPT !.poll_rx_ts = SetAt(@, anchor_idx, ts)]]
    ELSE [res |-> "Panic", sm |-> self]

\* set_poll_rx_ts: unwrap() panics when the address is not found.
Tag_set_poll_rx_ts(self, anchor_addr, ts) ==
    LET anchor_idx == position(self.anchors, anchor_addr)
    IN  IF anchor_idx = None THEN [res |-> "Panic", sm |-> self]
        ELSE IF InBounds(self.poll_rx_ts, anchor_idx[1])
        THEN [res |-> "Unit", sm |-> [self EXCEPT !.poll_rx_ts = SetAt(@, anchor_idx[1], ts)]]
        ELSE [res |-> "Panic", sm |-> self]

\* set_response_rx_ts_idx: the indexing panics when anchor_idx is out of bounds.
Tag_set_response_rx_ts_idx(self, anchor_idx, ts) ==
    IF InBounds(self.response_rx_ts, anchor_idx)
    THEN [res |-> "Unit", sm |-> [self EXCEPT !.response_rx_ts = SetAt(@, anchor_idx, ts)]]
    ELSE [res |-> "Panic", sm |-> self]

\* set_response_rx_ts: unwrap() panics when the address is not found.
Tag_set_response_rx_ts(self, anchor_addr, ts) ==
    LET anchor_idx == position(self.anchors, anchor_addr)
    IN  IF anchor_idx = None THEN [res |-> "Panic", sm |-> self]
        ELSE IF InBounds(self.response_rx_ts, anchor_idx[1])
        THEN [res |-> "Unit", sm |-> [self EXCEPT !.response_rx_ts = SetAt(@, anchor_idx[1], ts)]]
        ELSE [res |-> "Panic", sm |-> self]

\* set_final_tx_ts_idx: the indexing panics when anchor_idx is out of bounds.
Tag_set_final_tx_ts_idx(self, anchor_idx, ts) ==
    IF InBounds(self.final_tx_ts, anchor_idx)
    THEN [res |-> "Unit", sm |-> [self EXCEPT !.final_tx_ts = SetAt(@, anchor_idx, ts)]]
    ELSE [res |-> "Panic", sm |-> self]

\* set_final_tx_ts: unwrap() panics when the address is not found.
Tag_set_final_tx_ts(self, anchor_addr, ts) ==
    LET anchor_idx == position(self.anchors, anchor_addr)
    IN  IF anchor_idx = None THEN [res |-> "Panic", sm |-> self]
        ELSE IF InBounds(self.final_tx_ts, anchor_idx[1])
        THEN [res |-> "Unit", sm |-> [self EXCEPT !.final_tx_ts = SetAt(@, anchor_idx[1], ts)]]
        ELSE [res |-> "Panic", sm |-> self]

\* set_final_rx_ts_idx: the indexing panics when anchor_idx is out of bounds.
Tag_set_final_rx_ts_idx(self, anchor_idx, ts) ==
    IF InBounds(self.final_rx_ts, anchor_idx)
    THEN [res |-> "Unit", sm |-> [self EXCEPT !.final_rx_ts = SetAt(@, anchor_idx, ts)]]
    ELSE [res |-> "Panic", sm |-> self]

\* set_final_rx_ts: unwrap() panics when the address is not found.
Tag_set_final_rx_ts(self, anchor_addr, ts) ==
    LET anchor_idx == position(self.anchors, anchor_addr)
    IN  IF anchor_idx = None THEN [res |-> "Panic", sm |-> self]
        ELSE IF InBounds(self.final_rx_ts, anchor_idx[1])
        THEN [res |-> "Unit", sm |-> [self EXCEPT !.final_rx_ts = SetAt(@, anchor_idx[1], ts)]]
        ELSE [res |-> "Panic", sm |-> self]

Tag_set_response_tx_ts(self, response_tx_ts) ==
    [res |-> "Unit", sm |-> [self EXCEPT !.response_tx_ts = response_tx_ts]]

\* ------------------------------------------------------------------------
\* Tag side: AnyTagSideStateMachine
\* ------------------------------------------------------------------------
Tag_mem_take(sm) == [taken |-> sm, left |-> Tag_default(sm.state)]

\* An as_idle_mut whose match arm is the WaitingForAnchorPoll variant.
AnyTag_as_idle_mut_wrong_arm(self) ==
    IF self.variant = "WaitingForAnchorPoll" THEN Some(self.sm) ELSE None

AnyTag_as_idle_mut(self) ==
    IF self.variant = "Idle" THEN Some(self.sm) ELSE None

AnyTag_as_waiting_for_anchor_poll_mut(self) ==
    IF self.variant = "WaitingForAnchorPoll" THEN Some(self.sm) ELSE None

\* An as_waiting_for_anchor_final_mut that also matches WaitingForAnchorPoll.
AnyTag_as_waiting_for_anchor_final_mut_early(self) ==
    IF self.variant \in {"WaitingForAnchorPoll", "WaitingForAnchorFinal"}
    THEN Some(self.sm) ELSE None

AnyTag_as_waiting_for_anchor_final_mut(self) ==
    IF self.variant = "WaitingForAnchorFinal" THEN Some(self.sm) ELSE None

AnyTag_as_mut(self, p) ==
    CASE p = "Idle" -> AnyTag_as_idle_mut(self)
      [] p = "WaitingForAnchorPoll" -> AnyTag_as_waiting_for_anchor_poll_mut(self)
      [] p = "WaitingForAnchorFinal" -> AnyTag_as_waiting_for_anchor_final_mut(self)

AnyTag_to_waiting_for_anchor_poll(self) ==
    IF self.variant = "Idle"
    THEN LET t == Tag_mem_take(self.sm)
         IN  [res |-> "Ok",
              w |-> [variant |-> "WaitingForAnchorPoll",
                     sm |-> Tag_waiting_for_anchor_poll(t.taken)]]
    ELSE [res |-> "Err", w |-> self]

\* A to_waiting_for_anchor_final whose match arm also accepts Idle.
AnyTag_to_waiting_for_anchor_final_from_idle(self) ==
    IF self.variant \in {"Idle", "WaitingForAnchorPoll"}
    THEN LET t == Tag_mem_take(self.sm)
         IN  [res |-> "Ok",
              w |-> [variant |-> "WaitingForAnchorFinal",
                     sm |-> Tag_waiting_for_anchor_final(t.taken)]]
    ELSE [res |-> "Err", w |-> self]

AnyTag_to_waiting_for_anchor_final(self) ==
    IF self.variant = "WaitingForAnchorPoll"
    THEN LET t == Tag_mem_take(self.sm)
         IN  [res |-> "Ok",
              w |-> [variant |-> "WaitingForAnchorFinal",
                     sm |-> Tag_waiting_for_anchor_final(t.taken)]]
    ELSE [res |-> "Err", w |-> self]

\* From<TagSideStateMachine<P>> for AnyTagSideStateMachine
AnyTag_from(state_machine) ==
    [variant |-> state_machine.state, sm |-> state_machine]

\* TryInto<TagSideStateMachine<P>> for AnyTagSideStateMachine
AnyTag_try_into(self, p) ==
    IF self.variant = p THEN Some(self.sm) ELSE None

\* TryFrom<&AnyTagSideStateMachine> for &TagSideStateMachine<P>
AnyTag_try_from_ref(state_machine, p) ==
    IF state_machine.variant = p THEN Some(state_machine.sm) ELSE None

\* ------------------------------------------------------------------------
\* Tag side: the calls a holder of the machine can make
\* ------------------------------------------------------------------------
TagReach(via, p) ==
    CASE via = "typed" ->
            IF tag_sm # None /\ tag_sm[1].state = p THEN tag_sm ELSE None
      [] via = "view" ->
            IF any_tag # None THEN AnyTag_as_mut(any_tag[1], p) ELSE None

TagStore(via, sm) ==
    CASE via = "typed" -> tag_sm' = Some(sm) /\ any_tag' = any_tag
      [] via = "view" -> any_tag' = Some([any_tag[1] EXCEPT !.sm = sm])
                         /\ tag_sm' = tag_sm

\* A setter can be called on a machine in phase p reached by via.
TagCanSet(via, p) ==
    /\ ~panicked
    /\ tag_writes < MaxWrites
    /\ TagReach(via, p) # None

\* The effect of a setter call whose outcome is r.
TagSet(op, via, idx, addr, ts, r) ==
    /\ TagStore(via, r.sm)
    /\ tag_writes' = tag_writes + 1
    /\ panicked' = (r.res = "Panic")
    /\ last' = Call("tag", op, "", via, idx, addr, ts, r.res, None)
    /\ UNCHANGED <<other_vars, anchor_vars>>

T_from ==
    /\ ~panicked
    /\ tag_sm # None
    /\ any_tag' = Some(AnyTag_from(tag_sm[1]))
    /\ tag_sm' = None
    /\ last' = Call("tag", "from", tag_sm[1].state, "typed", -1, -1, -1, "Ok", None)
    /\ UNCHANGED <<other_vars, anchor_vars, tag_writes, panicked>>

T_try_into(p) ==
    /\ ~panicked
    /\ any_tag # None
    /\ LET r == AnyTag_try_into(any_tag[1], p)
       IN  /\ tag_sm' = r
           /\ any_tag' = None
           /\ last' = Call("tag", "try_into", p, "any", -1, -1, -1,
                           IF r # None THEN "Ok" ELSE "Err", r)
    /\ UNCHANGED <<other_vars, anchor_vars, tag_writes, panicked>>

T_try_from_ref(p) ==
    /\ ~panicked
    /\ any_tag # None
    /\ LET r == AnyTag_try_from_ref(any_tag[1], p)
       IN  last' = Call("tag", "try_from_ref", p, "any", -1, -1, -1,
                        IF r # None THEN "Ok" ELSE "Err", r)
    /\ UNCHANGED <<other_vars, anchor_vars, tag_vars, panicked>>

T_as_mut(p) ==
    /\ ~panicked
    /\ any_tag # None
    /\ LET r == AnyTag_as_mut(any_tag[1], p)
       IN  last' = Call("tag", "as_mut", p, "any", -1, -1, -1,
                        IF r # None THEN "Some" ELSE "None", None)
    /\ UNCHANGED <<other_vars, anchor_vars, tag_vars, panicked>>

T_to_waiting_for_anchor_poll ==
    /\ ~panicked
    /\ any_tag # None
    /\ LET r == AnyTag_to_waiting_for_anchor_poll(any_tag[1])
       IN  /\ any_tag' = Some(r.w)
           /\ last' = Call("tag", "to_waiting_for_anchor_poll", "", "any", -1, -1, -1, r.res, None)
    /\ UNCHANGED <<other_vars, anchor_vars, tag_sm, tag_writes, panicked>>

T_to_waiting_for_anchor_final ==
    /\ ~panicked
    /\ any_tag # None
    /\ LET r == AnyTag_to_waiting_for_anchor_final(any_tag[1])
       IN  /\ any_tag' = Some(r.w)
           /\ last' = Call("tag", "to_waiting_for_anchor_final", "", "any", -1, -1, -1, r.res, None)
    /\ UNCHANGED <<other_vars, anchor_vars, tag_sm, tag_writes, panicked>>

\* The typed transitions of a machine owned by value.
T_waiting_for_anchor_poll ==
    /\ ~panicked
    /\ TagReach("typed", "Idle") # None
    /\ tag_sm' = Some(Tag_waiting_for_anchor_poll(tag_sm[1]))
    /\ last' = Call("tag", "waiting_for_anchor_poll", "", "typed", -1, -1, -1, "Ok", None)
    /\ UNCHANGED <<other_vars, anchor_vars, any_tag, tag_writes, panicked>>

T_waiting_for_anchor_final ==
    /\ ~panicked
    /\ TagReach("typed", "WaitingForAnchorPoll") # None
    /\ tag_sm' = Some(Tag_waiting_for_anchor_final(tag_sm[1]))
    /\ last' = Call("tag", "waiting_for_anchor_final", "", "typed", -1, -1, -1, "Ok", None)
    /\ UNCHANGED <<other_vars, anchor_vars, any_tag, tag_writes, panicked>>

T_idle ==
    /\ ~panicked
    /\ TagReach("typed", "WaitingForAnchorFinal") # None
    /\ tag_sm' = Some(Tag_idle(tag_sm[1]))
    /\ last' = Call("tag", "idle", "", "typed", -1, -1, -1, "Ok", None)
    /\ UNCHANGED <<other_vars, anchor_vars, any_tag, tag_writes, panicked>>

T_set_poll_tx_ts_idx(via, anchor_idx, ts) ==
    /\ TagCanSet(via, "WaitingForAnchorPoll")
    /\ TagSet("set_poll_tx_ts_idx", via, anchor_idx, -1, ts,
              Tag_set_poll_tx_ts_idx(TagReach(via, "WaitingForAnchorPoll")[1], anchor_idx, ts))

T_set_poll_tx_ts(via, anchor_addr, ts) ==
    /\ TagCanSet(via, "WaitingForAnchorPoll")
    /\ TagSet("set_poll_tx_ts", via, -1, anchor_addr, ts,
              Tag_set_poll_tx_ts(TagReach(via, "WaitingForAnchorPoll")[1], anchor_addr, ts))

T_set_poll_rx_ts_idx(via, anchor_idx, ts) ==
    /\ TagCanSet(via, "WaitingForAnchorPoll")
    /\ TagSet("set_poll_rx_ts_idx", via, anchor_idx, -1, ts,
              Tag_set_poll_rx_ts_idx(TagReach(via, "WaitingForAnchorPoll")[1], anchor_idx, ts))

T_set_poll_rx_ts(via, anchor_addr, ts) ==
    /\ TagCanSet(via, "WaitingForAnchorPoll")
    /\ TagSet("set_poll_rx_ts", via, -1, anchor_addr, ts,
              Tag_set_poll_rx_ts(TagReach(via, "WaitingForAnchorPoll")[1], anchor_addr, ts))

T_set_response_rx_ts_idx(via, anchor_idx, ts) ==
    /\ TagCanSet(via, "WaitingForAnchorFinal")
    /\ TagSet("set_response_rx_ts_idx", via, anchor_idx, -1, ts,
              Tag_set_response_rx_ts_idx(TagReach(via, "WaitingForAnchorFinal")[1], anchor_idx, ts))

T_set_response_rx_ts(via, anchor_addr, ts) ==
    /\ TagCanSet(via, "WaitingForAnchorFinal")
    /\ TagSet("set_response_rx_ts", via, -1, anchor_addr, ts,
              Tag_set_response_rx_ts(TagReach(via, "WaitingForAnchorFinal")[1], anchor_addr, ts))

T_set_final_tx_ts_idx(via, anchor_idx, ts) ==
    /\ TagCanSet(via, "WaitingForAnchorFinal")
    /\ TagSet("set_final_tx_ts_idx", via, anchor_idx, -1, ts,
              Tag_set_final_tx_ts_idx(TagReach(via, "WaitingForAnchorFinal")[1], anchor_idx, ts))

T_set_final_tx_ts(via, anchor_addr, ts) ==
    /\ TagCanSet(via, "WaitingForAnchorFinal")
    /\ TagSet("set_final_tx_ts", via, -1, anchor_addr, ts,
              Tag_set_final_tx_ts(TagReach(via, "WaitingForAnchorFinal")[1], anchor_addr, ts))

T_set_final_rx_ts_idx(via, anchor_idx, ts) ==
    /\ TagCanSet(via, "WaitingForAnchorFinal")
    /\ TagSet("set_final_rx_ts_idx", via, anchor_idx, -1, ts,
              Tag_set_final_rx_ts_idx(TagReach(via, "WaitingForAnchorFinal")[1], anchor_idx, ts))

T_set_final_rx_ts(via, anchor_addr, ts) ==
    /\ TagCanSet(via, "WaitingForAnchorFinal")
    /\ TagSet("set_final_rx_ts", via, -1, anchor_addr, ts,
              Tag_set_final_rx_ts(TagReach(via, "WaitingForAnchorFinal")[1], anchor_addr, ts))

T_set_response_tx_ts(via, ts) ==
    /\ TagCanSet(via, "WaitingForAnchorFinal")
    /\ TagSet("set_response_tx_ts", via, -1, -1, ts,
              Tag_set_response_tx_ts(TagReach(via, "WaitingForAnchorFinal")[1], ts))

\* The addresses offered to address-addressed setters: those of the peer
\* lists and one that is in no peer list.
CallAddrs == Addrs \cup {12}

NextTag ==
    \/ T_from
    \/ \E p \in TagPhases : T_try_into(p)
    \/ \E p \in TagPhases : T_try_from_ref(p)
    \/ \E p \in TagPhases : T_as_mut(p)
    \/ T_to_waiting_for_anchor_poll
    \/ T_to_waiting_for_anchor_final
    \/ T_waiting_for_anchor_poll
    \/ T_waiting_for_anchor_final
    \/ T_idle
    \/ \E via \in Vias, i \in Indices, ts \in Ts : T_set_poll_tx_ts_idx(via, i, ts)
    \/ \E via \in Vias, a \in CallAddrs, ts \in Ts : T_set_poll_tx_ts(via, a, ts)
    \/ \E via \in Vias, i \in Indices, ts \in Ts : T_set_poll_rx_ts_idx(via, i, ts)
    \/ \E via \in Vias, a \in CallAddrs, ts \in Ts : T_set_poll_rx_ts(via, a, ts)
    \/ \E via \in Vias, i \in Indices, ts \in Ts : T_set_response_rx_ts_idx(via, i, ts)
    \/ \E via \in Vias, a \in CallAddrs, ts \in Ts : T_set_response_rx_ts(via, a, ts)
    \/ \E via \in Vias, i \in Indices, ts \in Ts : T_set_final_tx_ts_idx(via, i, ts)
    \/ \E via \in Vias, a \in CallAddrs, ts \in Ts : T_set_final_tx_ts(via, a, ts)
    \/ \E via \in Vias, i \in Indices, ts \in Ts : T_set_final_rx_ts_idx(via, i, ts)
    \/ \E via \in Vias, a \in CallAddrs, ts \in Ts : T_set_final_rx_ts(via, a, ts)
    \/ \E via \in Vias, ts \in Ts : T_set_response_tx_ts(via, ts)

\* ------------------------------------------------------------------------
\* Initial state: one machine, of either role, as returned by new and owned
\* by value.  The two roles share no state, so a run follows one machine.
\* ------------------------------------------------------------------------
InitAnchor ==
    /\ \E a \in OwnAddrs, anchors \in InertLists, tags \in AddrLists :
          /\ anchor_sm = Some(Anchor_new(a, anchors, tags))
          /\ last = CallOfNew("anchor", a, anchors, tags)
    /\ tag_sm = None

InitTag ==
    /\ \E a \in OwnAddrs, anchors \in AddrLists, tags \in InertLists :
          /\ tag_sm = Some(Tag_new(a, anchors, tags))
          /\ last = CallOfNew("tag", a, anchors, tags)
    /\ anchor_sm = None

\* No scenario is being driven.
NoScenario ==
    /\ anchor_state_machines = <<>>
    /\ tag_state_machines = <<>>
    /\ scn = [pc |-> "off", i |-> 0, j |-> 0, panicked |-> FALSE]

\* No packet is being coded.
NoCodec ==
    /\ packet = None
    /\ wire = None
    /\ decoded = None

\* No airtime is being computed.
NoAirtime == air = None

Init ==
    /\ any_anchor = None
    /\ any_tag = None
    /\ InitAnchor \/ InitTag
    /\ tag_writes = 0
    /\ panicked = FALSE
    /\ NoScenario
    /\ NoCodec
    /\ NoAirtime

Next == NextAnchor \/ NextTag

Spec == Init /\ [][Next]_vars

\* ------------------------------------------------------------------------
\* The scenario test scenario_8anchor_3tag: one ranging round of N anchors
\* and M tags, every machine behind its wrapper, driven statement by
\* statement.  scn.pc names the statement reached, scn.i the index of the
\* outer loop and scn.j the index of the inner loop; an unwrap() of Err or
\* None and a panicking accessor set scn.panicked and end the run.
\* ------------------------------------------------------------------------

\* The test runs 8 anchors and 3 tags; the model runs every N in
\* 1..ScenarioAnchors and every M in 1..ScenarioTags.
ScenarioAnchors == 8
ScenarioTags == 3

\* txts of a tag's response and of an anchor's final message.
ResponseTxBase == 1000
FinalTxBase == 2000

\* anchor_addresses = [0, 1, ..., N - 1]
Scenario_anchor_addresses(n) == [i \in 1..n |-> i - 1]

\* tag_addresses = [100, 101, ...]
Scenario_tag_addresses(m) == [j \in 1..m |-> 100 + (j - 1)]

ScenarioInit ==
    \E n \in 1..ScenarioAnchors, m \in 1..ScenarioTags :
        /\ anchor_state_machines =
              [i \in 1..n |-> AnyAnchor_from(Anchor_new(i - 1, Scenario_anchor_addresses(n),
                                                        Scenario_tag_addresses(m)))]
        /\ tag_state_machines =
              [j \in 1..m |-> AnyTag_from(Tag_new(j - 1, Scenario_anchor_addresses(n),
                                                  Scenario_tag_addresses(m)))]
        /\ scn = [pc |-> "tags_to_poll", i |-> 0, j |-> 0, panicked |-> FALSE]

ScnAnchors == Len(anchor_state_machines)
ScnTags == Len(tag_state_machines)

ScnAt(pc) == scn.pc = pc /\ ~scn.panicked

ScnPanic ==
    /\ scn' = [scn EXCEPT !.panicked = TRUE]
    /\ UNCHANGED <<anchor_state_machines, tag_state_machines>>

ScnGoto(pc, i, j) == scn' = [pc |-> pc, i |-> i, j |-> j, panicked |-> FALSE]

\* for tag_state_machine in ... { tag_state_machine.to_waiting_for_anchor_poll().unwrap(); }
S_tags_to_waiting_for_anchor_poll ==
    /\ ScnAt("tags_to_poll")
    /\ LET r == AnyTag_to_waiting_for_anchor_poll(tag_state_machines[scn.i + 1])
       IN  IF r.res = "Ok"
           THEN /\ tag_state_machines' = [tag_state_machines EXCEPT ![scn.i + 1] = r.w]
                /\ IF scn.i + 1 < ScnTags
                   THEN ScnGoto("tags_to_poll", scn.i + 1, 0)
                   ELSE ScnGoto("anchor_poll", 0, 0)
                /\ UNCHANGED anchor_state_machines
           ELSE ScnPanic
    /\ UNCHANGED <<machine_vars, codec_vars, air>>

\* anchor_state_machine.to_waiting_for_response(txts).unwrap(), txts = i
S_anchor_to_waiting_for_response ==
    /\ ScnAt("anchor_poll")
    /\ LET r == AnyAnchor_to_waiting_for_response(anchor_state_machines[scn.i + 1], scn.i)
       IN  IF r.res = "Ok"
           THEN /\ anchor_state_machines' = [anchor_state_machines EXCEPT ![scn.i + 1] = r.w]
                /\ ScnGoto("tag_recv_poll", scn.i, 0)
                /\ UNCHANGED tag_state_machines
           ELSE ScnPanic
    /\ UNCHANGED <<machine_vars, codec_vars, air>>

\* Tag j receives the poll of anchor i: the probe, set_poll_tx_ts(i, txts)
\* and set_poll_rx_ts(i, txts + j).
S_tag_receives_poll ==
    /\ ScnAt("tag_recv_poll")
    /\ LET tsm == AnyTag_as_waiting_for_anchor_poll_mut(tag_state_machines[scn.j + 1])
           r1 == Tag_set_poll_tx_ts(tsm[1], scn.i, scn.i)
           r2 == Tag_set_poll_rx_ts(r1.sm, scn.i, scn.i + scn.j)
       IN  IF tsm # None /\ r1.res = "Unit" /\ r2.res = "Unit"
           THEN /\ tag_state_machines' = [tag_state_machines EXCEPT ![scn.j + 1].sm = r2.sm]
                /\ IF scn.j + 1 < ScnTags THEN ScnGoto("tag_recv_poll", scn.i, scn.j + 1)
                   ELSE IF scn.i + 1 < ScnAnchors THEN ScnGoto("anchor_poll", scn.i + 1, 0)
                   ELSE ScnGoto("tag_response", 0, 0)
                /\ UNCHANGED anchor_state_machines
           ELSE ScnPanic
    /\ UNCHANGED <<machine_vars, codec_vars, air>>

\* Tag i sends its response: to_waiting_for_anchor_final().unwrap(), the
\* probe and set_response_tx_ts(i + 1000).
S_tag_to_waiting_for_anchor_final ==
    /\ ScnAt("tag_response")
    /\ LET r == AnyTag_to_waiting_for_anchor_final(tag_state_machines[scn.i + 1])
           tsm == AnyTag_as_waiting_for_anchor_final_mut(r.w)
           r1 == Tag_set_response_tx_ts(tsm[1], scn.i + ResponseTxBase)
       IN  IF r.res = "Ok" /\ tsm # None /\ r1.res = "Unit"
           THEN /\ tag_state_machines' =
                      [tag_state_machines EXCEPT ![scn.i + 1] = [r.w EXCEPT !.sm = r1.sm]]
                /\ ScnGoto("anchor_recv_response", scn.i, 0)
                /\ UNCHANGED anchor_state_machines
           ELSE ScnPanic
    /\ UNCHANGED <<machine_vars, codec_vars, air>>

\* Anchor j receives the response of tag i: the probe and
\* set_response_rx_ts(i, txts + j).
S_anchor_receives_response ==
    /\ ScnAt("anchor_recv_response")
    /\ LET asm == AnyAnchor_as_waiting_for_response_mut(anchor_state_machines[scn.j + 1])
           r1 == Anchor_set_response_rx_ts(asm[1], scn.i, scn.i + ResponseTxBase + scn.j)
       IN  IF asm # None /\ r1.res = "Unit"
           THEN /\ anchor_state_machines' =
                      [anchor_state_machines EXCEPT ![scn.j + 1].sm = r1.sm]
                /\ IF scn.j + 1 < ScnAnchors
                   THEN ScnGoto("anchor_recv_response", scn.i, scn.j + 1)
                   ELSE IF scn.i + 1 < ScnTags THEN ScnGoto("tag_response", scn.i + 1, 0)
                   ELSE ScnGoto("anchor_final", 0, 0)
                /\ UNCHANGED tag_state_machines
           ELSE ScnPanic
    /\ UNCHANGED <<machine_vars, codec_vars, air>>

\* anchor_state_machine.to_sending_final().unwrap()
S_anchor_to_sending_final ==
    /\ ScnAt("anchor_final")
    /\ LET r == AnyAnchor_to_sending_final(anchor_state_machines[scn.i + 1])
       IN  IF r.res = "Ok"
           THEN /\ anchor_state_machines' = [anchor_state_machines EXCEPT ![scn.i + 1] = r.w]
                /\ ScnGoto("tag_recv_final", scn.i, 0)
                /\ UNCHANGED tag_state_machines
           ELSE ScnPanic
    /\ UNCHANGED <<machine_vars, codec_vars, air>>

\* Tag j receives the final of anchor i: the probes,
\* set_response_rx_ts(i, anchor.get_response_rx_ts(j)), set_final_tx_ts(i, txts)
\* and set_final_rx_ts(i, txts + j), txts = i + 2000.
S_tag_receives_final ==
    /\ ScnAt("tag_recv_final")
    /\ LET tsm == AnyTag_as_waiting_for_anchor_final_mut(tag_state_machines[scn.j + 1])
           asm == AnyAnchor_as_sending_final_mut(anchor_state_machines[scn.i + 1])
           g == Anchor_get_response_rx_ts(asm[1], scn.j)
           r1 == Tag_set_response_rx_ts(tsm[1], scn.i, g.out[1])
           r2 == Tag_set_final_tx_ts(r1.sm, scn.i, scn.i + FinalTxBase)
           r3 == Tag_set_final_rx_ts(r2.sm, scn.i, scn.i + FinalTxBase + scn.j)
       IN  IF /\ tsm # None /\ asm # None /\ g.res = "Value"
              /\ r1.res = "Unit" /\ r2.res = "Unit" /\ r3.res = "Unit"
           THEN /\ tag_state_machines' = [tag_state_machines EXCEPT ![scn.j + 1].sm = r3.sm]
                /\ IF scn.j + 1 < ScnTags THEN ScnGoto("tag_recv_final", scn.i, scn.j + 1)
                   ELSE ScnGoto("anchor_to_idle", scn.i, 0)
                /\ UNCHANGED anchor_state_machines
           ELSE ScnPanic
    /\ UNCHANGED <<machine_vars, codec_vars, air>>

\* anchor_state_machine.to_idle().unwrap()
S_anchor_to_idle ==
    /\ ScnAt("anchor_to_idle")
    /\ LET r == AnyAnchor_to_idle(anchor_state_machines[scn.i + 1])
       IN  IF r.res = "Ok"
           THEN /\ anchor_state_machines' = [anchor_state_machines EXCEPT ![scn.i + 1] = r.w]
                /\ IF scn.i + 1 < ScnAnchors THEN ScnGoto("anchor_final", scn.i + 1, 0)
                   ELSE ScnGoto("done", 0, 0)
                /\ UNCHANGED tag_state_machines
           ELSE ScnPanic
    /\ UNCHANGED <<machine_vars, codec_vars, air>>

\* No machine is held outside the scenario's two arrays.
NoMachine ==
    /\ any_anchor = None
    /\ anchor_sm = None
    /\ any_tag = None
    /\ tag_sm = None
    /\ tag_writes = 0
    /\ panicked = FALSE
    /\ last = CallOfNew("none", 0, <<>>, <<>>)

InitScenario == NoMachine /\ ScenarioInit /\ NoCodec /\ NoAirtime

NextScenario ==
    \/ S_tags_to_waiting_for_anchor_poll
    \/ S_anchor_to_waiting_for_response
    \/ S_tag_receives_poll
    \/ S_tag_to_waiting_for_anchor_final
    \/ S_anchor_receives_response
    \/ S_anchor_to_sending_final
    \/ S_tag_receives_final
    \/ S_anchor_to_idle

SpecScenario == InitScenario /\ [][NextScenario]_vars

\* ------------------------------------------------------------------------
\* Packets (packet.rs).  A byte is a number in 0..255 and a byte string a
\* sequence of bytes.  A 40-bit or 48-bit unsigned number is the record
\* [hi, lo] of its bits above and below bit 24: its value is
\* hi * 2^24 + lo.
\* ------------------------------------------------------------------------
Limb == 2 ^ 24

Nibbles == 0..15

U40(hi, lo) == [hi |-> hi, lo |-> lo]

\* The timestamps packets are built with: 0, 0x12356789, 0xDEADBEEF and
\* 2^40 - 1.
TsSamples ==
    {U40(0, 0), U40(18, 3499913), U40(222, 11386607), U40(65535, 16777215)}

\* The n little-endian bytes of x < 256^n.
LeBytes(x, n) == [k \in 1..n |-> (x \div (256 ^ (k - 1))) % 256]

\* The number a little-endian byte string stands for.
RECURSIVE FromLeBytes(_)
FromLeBytes(b) == IF b = <<>> THEN 0 ELSE b[1] + 256 * FromLeBytes(Tail(b))

u40_to_le_bytes(t) == LeBytes(t.lo, 3) \o LeBytes(t.hi, 2)

\* A from_le_bytes that reads a 32-bit number and drops the fifth byte.
u40_from_le_bytes_u32(b) ==
    U40(FromLeBytes(SubSeq(b, 4, 4)), FromLeBytes(SubSeq(b, 1, 3)))

u40_from_le_bytes(b) ==
    U40(FromLeBytes(SubSeq(b, 4, 5)), FromLeBytes(SubSeq(b, 1, 3)))

\* A to_le_bytes that writes the most significant byte first.
u48_to_be_bytes(v) ==
    LET le == LeBytes(v.lo, 3) \o LeBytes(v.hi, 3)
    IN  [k \in 1..6 |-> le[7 - k]]

u48_to_le_bytes(v) == LeBytes(v.lo, 3) \o LeBytes(v.hi, 3)

u48_from_le_bytes(b) ==
    [hi |-> FromLeBytes(SubSeq(b, 4, 6)), lo |-> FromLeBytes(SubSeq(b, 1, 3))]

\* A conversion from 4 bits that looks at the two low bits only.
PacketType_from_low_bits(v) ==
    CASE v % 4 = 0 -> "Poll"
      [] v % 4 = 1 -> "Response"
      [] v % 4 = 2 -> "Final"
      [] OTHER -> "Reserved"

\* From<u4> for PacketType (derive(FromBits) with #[fallback])
PacketType_from(v) ==
    CASE v = 0 -> "Poll"
      [] v = 1 -> "Response"
      [] v = 2 -> "Final"
      [] OTHER -> "Reserved"

\* From<PacketType> for u4: the discriminant, Reserved being the one after
\* Final.
PacketType_into(t) ==
    CASE t = "Poll" -> 0
      [] t = "Response" -> 1
      [] t = "Final" -> 2
      [] t = "Reserved" -> 3

\* A bitfield of a 4-bit packet type, 4 reserved bits and a 40-bit
\* timestamp, the first field in the least significant bits.
Pack48(type_bits, resv, timestamp) ==
    [lo |-> type_bits + 16 * resv + 256 * (timestamp.lo % 65536),
     hi |-> (timestamp.lo \div 65536) + 256 * timestamp.hi]

\* From<u48> for PollPacket
PollPacket_from(value) == [value |-> value]

PollPacket_new(packet_type, resv, tx_timestamp) ==
    [value |-> Pack48(PacketType_into(packet_type), resv, tx_timestamp)]

PollPacket_packet_type(self) == PacketType_from(self.value.lo % 16)

PollPacket_resv(self) == (self.value.lo \div 16) % 16

PollPacket_tx_timestamp(self) ==
    U40(self.value.hi \div 256, (self.value.lo \div 256) + 65536 * (self.value.hi % 256))

\* From<u8> for ResponsePacket
ResponsePacket_from(value) == [value |-> value]

ResponsePacket_new(packet_type, resv) ==
    [value |-> PacketType_into(packet_type) + 16 * resv]

ResponsePacket_packet_type(self) == PacketType_from(self.value % 16)

ResponsePacket_resv(self) == (self.value \div 16) % 16

DeviceTimestamp_new(timestamp) == [bytes |-> u40_to_le_bytes(timestamp)]

DeviceTimestamp_value(self) == u40_from_le_bytes(self.bytes)

\* From<u8> for PacketHeader
PacketHeader_from(value) == [value |-> value]

PacketHeader_new(packet_type, resv) ==
    [value |-> PacketType_into(packet_type) + 16 * resv]

PacketHeader_packet_type(self) == PacketType_from(self.value % 16)

PacketHeader_resv(self) == (self.value \div 16) % 16

FinalPacket_new(packet_type, resv, rx_timestamps, tx_timestamp) ==
    [header_byte |-> PacketHeader_new(packet_type, resv).value,
     rx_timestamps |-> <<DeviceTimestamp_new(rx_timestamps[1]),
                         DeviceTimestamp_new(rx_timestamps[2]),
                         DeviceTimestamp_new(rx_timestamps[3])>>,
     tx_timestamp |-> DeviceTimestamp_new(tx_timestamp)]

FinalPacket_header(self) == PacketHeader_from(self.header_byte)

\* An as_bytes of a struct that declares tx_timestamp before rx_timestamps.
FinalPacket_as_bytes_tx_first(self) ==
    <<self.header_byte>> \o self.tx_timestamp.bytes \o self.rx_timestamps[1].bytes
        \o self.rx_timestamps[2].bytes \o self.rx_timestamps[3].bytes

\* AsBytes of the packed struct: the fields in declaration order, no padding.
FinalPacket_as_bytes(self) ==
    <<self.header_byte>> \o self.rx_timestamps[1].bytes \o self.rx_timestamps[2].bytes
        \o self.rx_timestamps[3].bytes \o self.tx_timestamp.bytes

\* transmute!([u8; 21]) to FinalPacket
FinalPacket_transmute(bytes) ==
    [header_byte |-> bytes[1],
     rx_timestamps |-> <<[bytes |-> SubSeq(bytes, 2, 6)],
                         [bytes |-> SubSeq(bytes, 7, 11)],
                         [bytes |-> SubSeq(bytes, 12, 16)]>>,
     tx_timestamp |-> [bytes |-> SubSeq(bytes, 17, 21)]]

PacketKinds == {"Poll", "Response", "Final"}

\* The bytes of a packet on the wire.
PacketBytes(kind, p) ==
    CASE kind = "Poll" -> u48_to_le_bytes(p.value)
      [] kind = "Response" -> <<p.value>>
      [] kind = "Final" -> FinalPacket_as_bytes(p)

\* The packet read back from the bytes, and its fields as the accessors
\* give them.
PacketRead(kind, bytes) ==
    CASE kind = "Poll" ->
            LET p == PollPacket_from(u48_from_le_bytes(bytes))
            IN  [p |-> p, packet_type |-> PollPacket_packet_type(p),
                 resv |-> PollPacket_resv(p),
                 timestamps |-> <<PollPacket_tx_timestamp(p)>>]
      [] kind = "Response" ->
            LET p == ResponsePacket_from(bytes[1])
            IN  [p |-> p, packet_type |-> ResponsePacket_packet_type(p),
                 resv |-> ResponsePacket_resv(p), timestamps |-> <<>>]
      [] kind = "Final" ->
            LET p == FinalPacket_transmute(bytes)
            IN  [p |-> p, packet_type |-> PacketHeader_packet_type(FinalPacket_header(p)),
                 resv |-> PacketHeader_resv(FinalPacket_header(p)),
                 timestamps |-> <<DeviceTimestamp_value(p.rx_timestamps[1]),
                                  DeviceTimestamp_value(p.rx_timestamps[2]),
                                  DeviceTimestamp_value(p.rx_timestamps[3]),
                                  DeviceTimestamp_value(p.tx_timestamp)>>]

\* A packet made by new from a packet type, or from the bits of its first
\* byte (From<uN>, or the public field header_byte of FinalPacket).
PacketOfType(kind, packet_type, resv, ts) ==
    CASE kind = "Poll" -> PollPacket_new(packet_type, resv, ts[1])
      [] kind = "Response" -> ResponsePacket_new(packet_type, resv)
      [] kind = "Final" -> FinalPacket_new(packet_type, resv, SubSeq(ts, 1, 3), ts[4])

PacketOfBits(kind, type_bits, resv, ts) ==
    CASE kind = "Poll" -> PollPacket_from(Pack48(type_bits, resv, ts[1]))
      [] kind = "Response" -> ResponsePacket_from(type_bits + 16 * resv)
      [] kind = "Final" ->
            [FinalPacket_new("Poll", 0, SubSeq(ts, 1, 3), ts[4])
                EXCEPT !.header_byte = PacketHeader_from(type_bits + 16 * resv).value]

\* The timestamps a packet of each kind carries.
TimestampLists(kind) ==
    CASE kind = "Poll" -> {<<t>> : t \in TsSamples}
      [] kind = "Response" -> {<<>>}
      [] kind = "Final" -> {<<a, b, c, t>> : a \in TsSamples, b \in TsSamples,
                                             c \in TsSamples, t \in TsSamples}

CodecInit ==
    /\ \E kind \in PacketKinds, resv \in Nibbles :
          \E ts \in TimestampLists(kind) :
             \/ \E packet_type \in {"Poll", "Response", "Final", "Reserved"} :
                   packet = Some([kind |-> kind, how |-> "new", packet_type |-> packet_type,
                                  resv |-> resv, timestamps |-> ts,
                                  p |-> PacketOfType(kind, packet_type, resv, ts)])
             \/ \E type_bits \in Nibbles :
                   packet = Some([kind |-> kind, how |-> "bits", packet_type |-> type_bits,
                                  resv |-> resv, timestamps |-> ts,
                                  p |-> PacketOfBits(kind, type_bits, resv, ts)])
    /\ wire = None
    /\ decoded = None

\* value.to_le_bytes() / as_bytes()
P_to_bytes ==
    /\ packet # None
    /\ wire = None
    /\ wire' = Some(PacketBytes(packet[1].kind, packet[1].p))
    /\ UNCHANGED <<packet, decoded, machine_vars, scenario_vars, air>>

\* from_le_bytes and From<uN> / transmute!, then the accessors
P_from_bytes ==
    /\ wire # None
    /\ decoded = None
    /\ decoded' = Some(PacketRead(packet[1].kind, wire[1]))
    /\ UNCHANGED <<packet, wire, machine_vars, scenario_vars, air>>

InitCodec == NoMachine /\ NoScenario /\ CodecInit /\ NoAirtime

NextCodec == P_to_bytes \/ P_from_bytes

SpecCodec == InitCodec /\ [][NextCodec]_vars

\* ------------------------------------------------------------------------
\* Frame airtime (util.rs).  A u32 value that the arithmetic of the model
\* cannot hold (above 2^31 - 1) is recorded as Overflow: there the build
\* either panics (overflow checks on) or wraps (overflow checks off).
\* ------------------------------------------------------------------------

\* Frame lengths are drawn from 0..MaxFrameLen bytes.
MaxFrameLen == 1023

WordMax == (2 ^ 30 - 1) + 2 ^ 30

Overflow == -1

U32Mul(a, b) ==
    IF a = Overflow \/ b = Overflow THEN Overflow
    ELSE IF b = 0 \/ a <= WordMax \div b THEN a * b
    ELSE Overflow

U32Add(a, b) ==
    IF a = Overflow \/ b = Overflow THEN Overflow
    ELSE IF a <= WordMax - b THEN a + b
    ELSE Overflow

DATA_BLOCK_SIZE == 330
REED_SOLOM_BITS == 48

SYM_TIM_16MHZ == 0
SYM_TIM_64MHZ == 9
SYM_TIM_850K == 3
SYM_TIM_6M8 == 6
SYM_TIM_SHR == 0
SYM_TIM_PHR == 1
SYM_TIM_DAT == 2

SYM_TIM_LUT ==
    <<994, 8206, 8206,
      994, 1026, 1026,
      994, 1026, 129,
      1018, 8206, 8206,
      1018, 1026, 1026,
      1018, 1026, 129>>

PulseRepetitionFrequencies == {"Mhz16", "Mhz64"}

PreambleLengths ==
    {"Symbols32", "Symbols64", "Symbols72", "Symbols128", "Symbols256",
     "Symbols512", "Symbols1024", "Symbols1536", "Symbols2048", "Symbols4096"}

BitRates == {"Kbps850", "Kbps6800"}

\* The fields of dw3000::Config that frame_tx_time reads.
Configs ==
    [pulse_repetition_frequency : PulseRepetitionFrequencies,
     preamble_length : PreambleLengths,
     bitrate : BitRates]

\* match config.preamble_length
PreambleSymbols(preamble_length) ==
    CASE preamble_length = "Symbols32" -> 32
      [] preamble_length = "Symbols64" -> 64
      [] preamble_length = "Symbols72" -> 72
      [] preamble_length = "Symbols128" -> 128
      [] preamble_length = "Symbols256" -> 256
      [] preamble_length = "Symbols512" -> 512
      [] preamble_length = "Symbols1024" -> 1024
      [] preamble_length = "Symbols1536" -> 1536
      [] preamble_length = "Symbols2048" -> 2048
      [] preamble_length = "Symbols4096" -> 4096

\* A sym_timing_ind that stops at the PRF and never adds the bitrate offset.
SymTimingInd_prf_only(config) ==
    CASE config.pulse_repetition_frequency = "Mhz16" -> SYM_TIM_16MHZ
      [] config.pulse_repetition_frequency = "Mhz64" -> SYM_TIM_64MHZ

\* sym_timing_ind after the matches on the PRF and on the bitrate
SymTimingInd(config) ==
    (CASE config.pulse_repetition_frequency = "Mhz16" -> SYM_TIM_16MHZ
       [] config.pulse_repetition_frequency = "Mhz64" -> SYM_TIM_64MHZ)
    + (CASE config.bitrate = "Kbps850" -> SYM_TIM_850K
         [] config.bitrate = "Kbps6800" -> SYM_TIM_6M8)

\* shr_len after the matches on the preamble length and on the bitrate:
\* both arms of the bitrate match add 8.
ShrLen(config) ==
    U32Add(PreambleSymbols(config.preamble_length),
           CASE config.bitrate = "Kbps850" -> 8
             [] config.bitrate = "Kbps6800" -> 8)

\* A table read that scales the entry to picoseconds.
SymTim_picoseconds(sym_timing_ind, segment) ==
    1000 * SYM_TIM_LUT[(sym_timing_ind + segment) + 1]

\* SYM_TIM_LUT[(sym_timing_ind + segment) as usize]
SymTim(sym_timing_ind, segment) == SYM_TIM_LUT[(sym_timing_ind + segment) + 1]

\* The body of frame_tx_time: every value it computes, in the order it
\* computes them.  frame_len is the variable of that name at return (the
\* argument when the body is not included), tx_time the value returned.
frame_tx_time(frame_len, config, include_body) ==
    LET sym_timing_ind == SymTimingInd(config)
        shr_len == ShrLen(config)
        shr_time == U32Mul(shr_len, SymTim(sym_timing_ind, SYM_TIM_SHR))
        phr_time == U32Mul(21, SymTim(sym_timing_ind, SYM_TIM_PHR))
        with_phr == U32Add(shr_time, phr_time)
        bits == U32Mul(frame_len, 8)
        rounded == U32Add(bits, DATA_BLOCK_SIZE - 1)
        product == U32Mul(REED_SOLOM_BITS, rounded)
        parity == IF product = Overflow THEN Overflow ELSE product \div DATA_BLOCK_SIZE
        inflated == U32Add(bits, parity)
        dat_time == U32Mul(inflated, SymTim(sym_timing_ind, SYM_TIM_DAT))
        with_dat == U32Add(with_phr, dat_time)
    IN  IF include_body
        THEN [sym_timing_ind |-> sym_timing_ind, shr_len |-> shr_len,
              frame_len |-> inflated, tx_time |-> with_dat,
              steps |-> <<shr_len, shr_time, phr_time, with_phr, bits, rounded,
                          product, parity, inflated, dat_time, with_dat>>]
        ELSE [sym_timing_ind |-> sym_timing_ind, shr_len |-> shr_len,
              frame_len |-> frame_len, tx_time |-> shr_time,
              steps |-> <<shr_len, shr_time>>]

AirtimeInit ==
    \E frame_len \in 0..MaxFrameLen, config \in Configs, include_body \in BOOLEAN :
        air = Some([frame_len |-> frame_len, config |-> config,
                    include_body |-> include_body,
                    calls |-> 0, out |-> None, first |-> None])

\* frame_tx_time(frame_len, &config, include_body), called a first and a
\* second time with the same arguments.
F_frame_tx_time ==
    /\ air # None
    /\ air[1].calls < 2
    /\ LET out == frame_tx_time(air[1].frame_len, air[1].config, air[1].include_body)
       IN  air' = Some([air[1] EXCEPT !.calls = @ + 1,
                                      !.out = Some(out),
                                      !.first = IF air[1].calls = 0 THEN Some(out) ELSE @])
    /\ UNCHANGED <<machine_vars, scenario_vars, codec_vars>>

InitAirtime == NoMachine /\ NoScenario /\ NoCodec /\ AirtimeInit

NextAirtime == F_frame_tx_time

SpecAirtime == InitAirtime /\ [][NextAirtime]_vars

\* ------------------------------------------------------------------------
\* An anchor wrapper driven by a scheduler that only moves it in place:
\* the wrapper is built from the machine new returned, probed, and moved by
\* the three in-place transitions.  The scheduler keeps taking the
\* transition that can succeed.
\* ------------------------------------------------------------------------
InitAnchorWrapper ==
    /\ any_anchor = None
    /\ any_tag = None
    /\ InitAnchor
    /\ tag_writes = 0
    /\ panicked = FALSE
    /\ NoScenario
    /\ NoCodec
    /\ NoAirtime

AnchorInPlaceTransition ==
    \/ \E ts \in Ts : A_to_waiting_for_response(ts)
    \/ A_to_sending_final
    \/ A_to_idle

\* An in-place transition that returns Ok.
AnchorProgress == AnchorInPlaceTransition /\ last'.res = "Ok"

NextAnchorWrapper ==
    \/ A_from
    \/ \E p \in AnchorPhases : A_as_mut(p)
    \/ \E ts \in Ts : A_to_waiting_for_response(ts)
    \/ A_to_sending_final
    \/ A_to_idle

SpecAnchorWrapper ==
    /\ InitAnchorWrapper
    /\ [][NextAnchorWrapper]_vars
    /\ WF_vars(A_from)
    /\ WF_vars(AnchorProgress)

\* ------------------------------------------------------------------------
\* Properties
\* ------------------------------------------------------------------------

\* The phase an in-place transition starts from and the phase it leads to.
AnchorPred == [to_waiting_for_response |-> "Idle",
               to_sending_final |-> "WaitingForResponse",
               to_idle |-> "SendingFinal"]
AnchorSucc == [to_waiting_for_response |-> "WaitingForResponse",
               to_sending_final |-> "SendingFinal",
               to_idle |-> "Idle"]
TagPred == [to_waiting_for_anchor_poll |-> "Idle",
            to_waiting_for_anchor_final |-> "WaitingForAnchorPoll"]
TagSucc == [to_waiting_for_anchor_poll |-> "WaitingForAnchorPoll",
            to_waiting_for_anchor_final |-> "WaitingForAnchorFinal"]

C1_Step ==
    (last'.role = "anchor" /\ last'.op \in DOMAIN AnchorPred) =>
        /\ any_anchor # None /\ any_anchor' # None
        /\ last'.res \in {"Ok", "Err"}
        /\ (last'.res = "Ok") <=> (any_anchor[1].variant = AnchorPred[last'.op])
        /\ (last'.res = "Ok") =>
              /\ any_anchor'[1].variant = AnchorSucc[last'.op]
              /\ any_anchor'[1].sm.state = AnchorSucc[last'.op]
        /\ (last'.res = "Err") => any_anchor' = any_anchor

\* C1: a call of AnyAnchorSideStateMachine::to_waiting_for_response,
\* to_sending_final or to_idle returns Ok iff the wrapper is in Idle,
\* WaitingForResponse or SendingFinal respectively, and the wrapper then
\* holds the successor phase; every other call returns Err and leaves the
\* wrapper (phase, poll_tx_ts, response_rx_ts, address, both lists) as it was.
C1_AnchorPhaseOrdering == [][C1_Step]_vars

\* A to_idle has failed on a wrapper in WaitingForResponse that holds a
\* recorded poll timestamp and a recorded response timestamp.
C1_Witness ==
    /\ last.role = "anchor" /\ last.op = "to_idle" /\ last.res = "Err"
    /\ any_anchor # None
    /\ any_anchor[1].variant = "WaitingForResponse"
    /\ any_anchor[1].sm.poll_tx_ts = 1
    /\ any_anchor[1].sm.response_rx_ts = <<0, 1>>

C2_Step ==
    (last'.role = "tag" /\ last'.op \in DOMAIN TagPred) =>
        /\ any_tag # None /\ any_tag' # None
        /\ last'.res \in {"Ok", "Err"}
        /\ (last'.res = "Ok") <=> (any_tag[1].variant = TagPred[last'.op])
        /\ (last'.res = "Ok") =>
              /\ any_tag'[1].variant = TagSucc[last'.op]
              /\ any_tag'[1].sm.state = TagSucc[last'.op]
        /\ (last'.res = "Err") => any_tag' = any_tag

\* C2: a call of AnyTagSideStateMachine::to_waiting_for_anchor_poll or
\* to_waiting_for_anchor_final returns Ok iff the wrapper is in Idle or
\* WaitingForAnchorPoll respectively, and the wrapper then holds the
\* successor phase; every other call returns Err and leaves the phase, the
\* six timestamp fields and both address lists unchanged.
C2_TagPhaseOrdering == [][C2_Step]_vars

\* A to_waiting_for_anchor_poll has failed on a wrapper in
\* WaitingForAnchorFinal that holds recorded timestamps.
C2_Witness ==
    /\ last.role = "tag" /\ last.op = "to_waiting_for_anchor_poll" /\ last.res = "Err"
    /\ any_tag # None
    /\ any_tag[1].variant = "WaitingForAnchorFinal"
    /\ any_tag[1].sm.poll_tx_ts = <<0, 1>>

\* The machine of each role, wherever it is held: in the wrapper or by value.
AnchorMachine ==
    IF any_anchor # None THEN Some(any_anchor[1].sm) ELSE anchor_sm

TagMachine ==
    IF any_tag # None THEN Some(any_tag[1].sm) ELSE tag_sm

\* The calls a holder of &mut AnyTagSideStateMachine can make on it: the
\* probes, the in-place transitions, and the setters of the view a probe
\* returns.
TagInPlace ==
    \/ \E p \in TagPhases : T_as_mut(p)
    \/ T_to_waiting_for_anchor_poll
    \/ T_to_waiting_for_anchor_final
    \/ \E i \in Indices, ts \in Ts :
          \/ T_set_poll_tx_ts_idx("view", i, ts)
          \/ T_set_poll_rx_ts_idx("view", i, ts)
          \/ T_set_response_rx_ts_idx("view", i, ts)
          \/ T_set_final_tx_ts_idx("view", i, ts)
          \/ T_set_final_rx_ts_idx("view", i, ts)
    \/ \E a \in CallAddrs, ts \in Ts :
          \/ T_set_poll_tx_ts("view", a, ts)
          \/ T_set_poll_rx_ts("view", a, ts)
          \/ T_set_response_rx_ts("view", a, ts)
          \/ T_set_final_tx_ts("view", a, ts)
          \/ T_set_final_rx_ts("view", a, ts)
    \/ \E ts \in Ts : T_set_response_tx_ts("view", ts)

\* C3: a tag wrapper that has reached WaitingForAnchorFinal can be advanced
\* back to Idle by the wrapper's in-place operations, so that the same
\* wrapper can start another round.
C3_TagWrapperReturnsToIdle ==
    (any_tag # None /\ any_tag[1].variant = "WaitingForAnchorFinal" /\ ~panicked)
        => ENABLED (TagInPlace /\ any_tag'[1].variant = "Idle")

C4_State ==
    /\ any_anchor # None =>
          /\ \A p \in AnchorPhases :
                AnyAnchor_as_mut(any_anchor[1], p) =
                    IF any_anchor[1].sm.state = p THEN Some(any_anchor[1].sm) ELSE None
          /\ Cardinality({p \in AnchorPhases : AnyAnchor_as_mut(any_anchor[1], p) # None}) = 1
    /\ any_tag # None =>
          /\ \A p \in TagPhases :
                AnyTag_as_mut(any_tag[1], p) =
                    IF any_tag[1].sm.state = p THEN Some(any_tag[1].sm) ELSE None
          /\ Cardinality({p \in TagPhases : AnyTag_as_mut(any_tag[1], p) # None}) = 1

C4_Step ==
    (last'.op = "as_mut") =>
        /\ any_anchor' = any_anchor /\ anchor_sm' = anchor_sm
        /\ any_tag' = any_tag /\ tag_sm' = tag_sm
        /\ last'.role = "anchor" =>
              ((last'.res = "Some") <=> (any_anchor[1].sm.state = last'.p))
        /\ last'.role = "tag" =>
              ((last'.res = "Some") <=> (any_tag[1].sm.state = last'.p))

\* C4: in every reachable state of either wrapper, as_<phase>_mut returns a
\* view iff the wrapper holds that phase, so exactly one of the three probes
\* is present; a probe changes neither the phase nor any field.
C4_PhaseProbing == [](C4_State) /\ [][C4_Step]_vars

\* The probe for WaitingForAnchorPoll has returned None on a tag wrapper in
\* WaitingForAnchorFinal.
C4_Witness ==
    /\ last.role = "tag" /\ last.op = "as_mut"
    /\ last.p = "WaitingForAnchorPoll" /\ last.res = "None"
    /\ any_tag # None
    /\ any_tag[1].variant = "WaitingForAnchorFinal"

C5_State ==
    /\ anchor_sm # None =>
          \A p \in AnchorPhases :
             LET w == AnyAnchor_from(anchor_sm[1])
                 expected == IF p = anchor_sm[1].state THEN Some(anchor_sm[1]) ELSE None
             IN  /\ AnyAnchor_try_into(w, p) = expected
                 /\ AnyAnchor_try_from_ref(w, p) = expected
    /\ tag_sm # None =>
          \A p \in TagPhases :
             LET w == AnyTag_from(tag_sm[1])
                 expected == IF p = tag_sm[1].state THEN Some(tag_sm[1]) ELSE None
             IN  /\ AnyTag_try_into(w, p) = expected
                 /\ AnyTag_try_from_ref(w, p) = expected

C5_Step ==
    /\ (last'.role = "anchor" /\ last'.op \in {"try_into", "try_from_ref"}) =>
          /\ (last'.res = "Ok") <=> (any_anchor[1].sm.state = last'.p)
          /\ last'.res = "Ok" => last'.out = Some(any_anchor[1].sm)
          /\ last'.res # "Ok" => last'.res = "Err" /\ last'.out = None
          /\ last'.op = "try_from_ref" => any_anchor' = any_anchor
          /\ last'.op = "try_into" => anchor_sm' = last'.out
    /\ (last'.role = "tag" /\ last'.op \in {"try_into", "try_from_ref"}) =>
          /\ (last'.res = "Ok") <=> (any_tag[1].sm.state = last'.p)
          /\ last'.res = "Ok" => last'.out = Some(any_tag[1].sm)
          /\ last'.res # "Ok" => last'.res = "Err" /\ last'.out = None
          /\ last'.op = "try_from_ref" => any_tag' = any_tag
          /\ last'.op = "try_into" => tag_sm' = last'.out
    /\ (last'.role = "anchor" /\ last'.op = "from") =>
          any_anchor' # None /\ any_anchor'[1].sm = anchor_sm[1]
    /\ (last'.role = "tag" /\ last'.op = "from") =>
          any_tag' # None /\ any_tag'[1].sm = tag_sm[1]

\* C5: for either role and every phase P, wrapping a phase-P machine with
\* From always succeeds, and try_into / try_from on the resulting wrapper
\* succeeds exactly for phase P, returning a machine with the same fields,
\* and fails for the other two phases; a by-reference try_from leaves the
\* wrapper unchanged.
C5_ConversionRoundTrip == [](C5_State) /\ [][C5_Step]_vars

\* A try_into for SendingFinal has returned the machine of an anchor wrapper
\* built from a SendingFinal machine, with its recorded timestamps.
C5_Witness ==
    /\ last.role = "anchor" /\ last.op = "try_into"
    /\ last.p = "SendingFinal" /\ last.res = "Ok"
    /\ anchor_sm # None
    /\ anchor_sm[1].state = "SendingFinal"
    /\ anchor_sm[1].poll_tx_ts = 1
    /\ anchor_sm[1].response_rx_ts = <<1>>

C6_Step ==
    (TagMachine # None /\ TagMachine' # None) =>
        LET before == TagMachine[1]
            after == TagMachine'[1]
        IN  /\ (after.poll_tx_ts # before.poll_tx_ts \/ after.poll_rx_ts # before.poll_rx_ts)
                  => (before.state = "WaitingForAnchorPoll"
                      /\ after.state = "WaitingForAnchorPoll")
            /\ (\/ after.response_tx_ts # before.response_tx_ts
                \/ after.response_rx_ts # before.response_rx_ts
                \/ after.final_tx_ts # before.final_tx_ts
                \/ after.final_rx_ts # before.final_rx_ts)
                  => (before.state = "WaitingForAnchorFinal"
                      /\ after.state = "WaitingForAnchorFinal")
            /\ any_tag # None => any_tag[1].variant = before.state

\* C6: poll_tx_ts and poll_rx_ts of a tag machine change only while it is in
\* WaitingForAnchorPoll, and response_tx_ts, response_rx_ts, final_tx_ts and
\* final_rx_ts change only while it is in WaitingForAnchorFinal.
C6_TagPhaseRestrictedWrites == [][C6_Step]_vars

\* A final receive timestamp has been recorded through the view of a tag
\* wrapper in WaitingForAnchorFinal.
C6_Witness ==
    /\ last.role = "tag" /\ last.op = "set_final_rx_ts_idx"
    /\ last.via = "view" /\ last.res = "Unit"
    /\ any_tag # None
    /\ any_tag[1].variant = "WaitingForAnchorFinal"
    /\ any_tag[1].sm.final_rx_ts = <<0, 1>>

C7_Step ==
    /\ (AnchorMachine # None /\ AnchorMachine' # None
        /\ AnchorMachine'[1].response_rx_ts # AnchorMachine[1].response_rx_ts)
          => /\ last'.op = "set_response_rx_ts"
             /\ AnchorMachine[1].state = "WaitingForResponse"
             /\ AnchorMachine'[1].state = "WaitingForResponse"
             /\ any_anchor # None => any_anchor[1].variant = "WaitingForResponse"
    /\ (last'.role = "anchor" /\ last'.op = "get_response_rx_ts")
          => /\ AnchorMachine # None
             /\ AnchorMachine[1].state = "SendingFinal"
             /\ any_anchor # None => any_anchor[1].variant = "SendingFinal"

\* C7: a response_rx_ts slot of an anchor machine changes only by
\* set_response_rx_ts while the machine is in WaitingForResponse, and
\* get_response_rx_ts is invoked only while it is in SendingFinal.
C7_AnchorPhaseRestrictedAccess == [][C7_Step]_vars

\* get_response_rx_ts has read, through the view of a wrapper in
\* SendingFinal, a value recorded in WaitingForResponse.
C7_Witness ==
    /\ last.role = "anchor" /\ last.op = "get_response_rx_ts"
    /\ last.via = "view" /\ last.res = "Value" /\ last.out = <<1>>
    /\ any_anchor # None
    /\ any_anchor[1].variant = "SendingFinal"

TagAddrSetters ==
    {"set_poll_tx_ts", "set_poll_rx_ts", "set_response_rx_ts",
     "set_final_tx_ts", "set_final_rx_ts"}

TagIdxSetters ==
    {"set_poll_tx_ts_idx", "set_poll_rx_ts_idx", "set_response_rx_ts_idx",
     "set_final_tx_ts_idx", "set_final_rx_ts_idx"}

C8_Step ==
    (/\ last'.role = "tag" /\ last'.op \in TagAddrSetters
     /\ TagMachine # None
     /\ \A i \in 1..Len(TagMachine[1].anchors) : TagMachine[1].anchors[i] # last'.addr)
        => /\ last'.res = "Err"
           /\ ~panicked'
           /\ TagMachine' = TagMachine

\* C8: an address-addressed tag setter called with an address that is not in
\* the machine's anchors list fails with an explicit error outcome, does not
\* panic, and leaves every timestamp slot unchanged.
C8_UnknownAddressIsError == [][C8_Step]_vars

C9_Step ==
    /\ (/\ last'.role = "anchor"
        /\ last'.op \in {"set_response_rx_ts", "get_response_rx_ts"}
        /\ AnchorMachine # None
        /\ last'.idx >= Len(AnchorMachine[1].tags))
          => /\ last'.res = "Err"
             /\ ~panicked'
             /\ AnchorMachine' = AnchorMachine
    /\ (/\ last'.role = "tag" /\ last'.op \in TagIdxSetters
        /\ TagMachine # None
        /\ last'.idx >= Len(TagMachine[1].anchors))
          => /\ last'.res = "Err"
             /\ ~panicked'
             /\ TagMachine' = TagMachine

\* C9: an index-addressed setter or getter (anchor set_response_rx_ts /
\* get_response_rx_ts, tag set_*_idx) called with an index greater than or
\* equal to the peer count returns an explicit bounds error instead of
\* panicking, and writes no slot.
C9_OutOfRangeIndexIsError == [][C9_Step]_vars

\* The address-addressed and the index-addressed setter of each field agree
\* on machine m for address a, index i and timestamp ts.
SettersAgree(m, a, i, ts) ==
    /\ m.state = "WaitingForAnchorPoll" =>
          /\ Tag_set_poll_tx_ts(m, a, ts) = Tag_set_poll_tx_ts_idx(m, i, ts)
          /\ Tag_set_poll_rx_ts(m, a, ts) = Tag_set_poll_rx_ts_idx(m, i, ts)
    /\ m.state = "WaitingForAnchorFinal" =>
          /\ Tag_set_response_rx_ts(m, a, ts) = Tag_set_response_rx_ts_idx(m, i, ts)
          /\ Tag_set_final_tx_ts(m, a, ts) = Tag_set_final_tx_ts_idx(m, i, ts)
          /\ Tag_set_final_rx_ts(m, a, ts) = Tag_set_final_rx_ts_idx(m, i, ts)

\* C10 as stated: for every tag machine, every anchors list accepted by new
\* (lists with a repeated address included) and every pair (address, index)
\* with anchors[index] = address, the address-addressed setter and the
\* index-addressed setter yield the same post-state.
C10_AddressIndexConsistency_AnyPosition ==
    TagMachine # None =>
        LET m == TagMachine[1]
        IN  \A i \in 0..(Len(m.anchors) - 1), ts \in Ts :
               SettersAgree(m, m.anchors[i + 1], i, ts)

\* C10 amended: for every tag machine and every pair (address, index) such
\* that index is the first position of address in anchors, the
\* address-addressed setter and the index-addressed setter yield the same
\* post-state.
C10_AddressIndexConsistency_FirstPosition ==
    TagMachine # None =>
        LET m == TagMachine[1]
        IN  \A i \in 0..(Len(m.anchors) - 1), ts \in Ts :
               (\A j \in 1..i : m.anchors[j] # m.anchors[i + 1])
                   => SettersAgree(m, m.anchors[i + 1], i, ts)

\* An address-addressed setter has written the slot of the first of two
\* equal addresses.
C10_Witness ==
    /\ last.role = "tag" /\ last.op = "set_poll_rx_ts"
    /\ last.addr = 10 /\ last.res = "Unit"
    /\ TagMachine # None
    /\ TagMachine[1].anchors = <<10, 10>>
    /\ TagMachine[1].poll_rx_ts = <<1, 0>>

\* ------------------------------------------------------------------------
\* C11: a ranging round of N anchors (addresses 0..N-1) and M tags, driven
\* in the order of the scenario test, never hits a failed transition, an
\* absent probe or a panicking accessor, and once it is over every tag j
\* holds, for every anchor i, poll_tx_ts[i] = i, poll_rx_ts[i] = i + j,
\* response_tx_ts = 1000 + j, response_rx_ts[i] = 1000 + j + i,
\* final_tx_ts[i] = 2000 + i and final_rx_ts[i] = 2000 + i + j, and every
\* anchor wrapper is in Idle.
\* ------------------------------------------------------------------------
C11_ScenarioRound ==
    /\ ~scn.panicked
    /\ scn.pc = "done" =>
          /\ \A j \in 0..(ScnTags - 1), i \in 0..(ScnAnchors - 1) :
                LET t == tag_state_machines[j + 1].sm
                IN  /\ t.poll_tx_ts[i + 1] = i
                    /\ t.poll_rx_ts[i + 1] = i + j
                    /\ t.response_tx_ts = 1000 + j
                    /\ t.response_rx_ts[i + 1] = 1000 + j + i
                    /\ t.final_tx_ts[i + 1] = 2000 + i
                    /\ t.final_rx_ts[i + 1] = 2000 + i + j
          /\ \A i \in 1..ScnAnchors : anchor_state_machines[i].variant = "Idle"

\* The round of the test itself, 8 anchors and 3 tags, is over.
C11_Witness ==
    /\ scn.pc = "done"
    /\ ScnAnchors = 8
    /\ ScnTags = 3
    /\ tag_state_machines[3].sm.final_rx_ts[8] = 2009

C12_Step ==
    (last'.role = "anchor" /\ last'.op \in {"idle", "to_idle"} /\ last'.res = "Ok")
       => /\ AnchorMachine # None /\ AnchorMachine' # None
          /\ AnchorMachine[1].state = "SendingFinal"
          /\ AnchorMachine'[1].state = "Idle"
          /\ AnchorMachine'[1].poll_tx_ts = 0
          /\ AnchorMachine'[1].response_rx_ts = AnchorMachine[1].response_rx_ts
          /\ AnchorMachine'[1].address = AnchorMachine[1].address
          /\ AnchorMachine'[1].anchor_addresses = AnchorMachine[1].anchor_addresses
          /\ AnchorMachine'[1].tags = AnchorMachine[1].tags

\* C12: the transition SendingFinal -> Idle of the anchor, typed (idle) and
\* in place (to_idle), sets poll_tx_ts to 0 and leaves every response_rx_ts
\* slot, the address, the anchor list and the tag list unchanged.
C12_AnchorReset == [][C12_Step]_vars

\* A wrapper has been reset in place after a round in which the poll was
\* sent at 1 and a response was received at 1: the slot is still 1.
C12_Witness ==
    /\ last.role = "anchor" /\ last.op = "to_idle" /\ last.res = "Ok"
    /\ last.hist.poll_given = 1
    /\ any_anchor # None
    /\ any_anchor[1].variant = "Idle"
    /\ any_anchor[1].sm.poll_tx_ts = 0
    /\ any_anchor[1].sm.response_rx_ts = <<0, 1>>

\* In SendingFinal the machine holds what the preceding WaitingForResponse
\* phase recorded.
C13_State ==
    (AnchorMachine # None /\ AnchorMachine[1].state = "SendingFinal")
       => /\ AnchorMachine[1].poll_tx_ts = last.hist.poll_given
          /\ \A i \in 1..Len(AnchorMachine[1].tags) :
                last.hist.set_in_phase[i] # -1
                   => AnchorMachine[1].response_rx_ts[i] = last.hist.set_in_phase[i]

\* get_response_rx_ts(i) returns what the preceding phase wrote to slot i.
C13_Step ==
    (/\ last'.role = "anchor" /\ last'.op = "get_response_rx_ts" /\ last'.res = "Value"
     /\ last.hist.set_in_phase[last'.idx + 1] # -1)
       => last'.out = Some(last.hist.set_in_phase[last'.idx + 1])

\* C13: after WaitingForResponse -> SendingFinal, for every tag index i
\* below the tag count get_response_rx_ts(i) returns the value of the last
\* set_response_rx_ts(i, v) of the preceding WaitingForResponse phase, and
\* poll_tx_ts still holds the value given at Idle -> WaitingForResponse.
C13_ResponseCarriedForward == []C13_State /\ [][C13_Step]_vars

\* The second slot, written with 1 in WaitingForResponse, has been read in
\* SendingFinal while the first slot was never written; the poll was sent at 1.
C13_Witness ==
    /\ last.role = "anchor" /\ last.op = "get_response_rx_ts" /\ last.res = "Value"
    /\ last.idx = 1 /\ last.out = <<1>>
    /\ last.hist.set_in_phase = <<-1, 1>>
    /\ last.hist.poll_given = 1
    /\ AnchorMachine # None
    /\ AnchorMachine[1].state = "SendingFinal"
    /\ AnchorMachine[1].poll_tx_ts = 1

C14_Step ==
    (/\ last'.role = "anchor"
     /\ last'.op \in {"any_waiting_for_response", "to_waiting_for_response"}
     /\ any_anchor # None /\ any_anchor[1].variant = "Idle")
       => /\ last'.res = "Ok"
          /\ any_anchor' # None
          /\ any_anchor'[1].variant = "WaitingForResponse"
          /\ any_anchor'[1].sm.state = "WaitingForResponse"
          /\ any_anchor'[1].sm.poll_tx_ts = last'.ts
          /\ any_anchor'[1].sm.response_rx_ts = any_anchor[1].sm.response_rx_ts
          /\ any_anchor'[1].sm.address = any_anchor[1].sm.address
          /\ any_anchor'[1].sm.anchor_addresses = any_anchor[1].sm.anchor_addresses
          /\ any_anchor'[1].sm.tags = any_anchor[1].sm.tags

\* C14: on a wrapper in Idle, the by-value waiting_for_response(ts) and the
\* in-place to_waiting_for_response(ts) succeed for every ts, and the
\* resulting wrapper is in WaitingForResponse with poll_tx_ts = ts and
\* response_rx_ts, address and both lists unchanged.
C14_PollTimestampRecording == [][C14_Step]_vars

\* The by-value transition has recorded 1 on a wrapper that came back to
\* Idle (poll_tx_ts = 0) with a response slot holding 1.
C14_Witness ==
    /\ last.role = "anchor" /\ last.op = "any_waiting_for_response" /\ last.res = "Ok"
    /\ last.ts = 1
    /\ any_anchor # None
    /\ any_anchor[1].variant = "WaitingForResponse"
    /\ any_anchor[1].sm.poll_tx_ts = 1
    /\ any_anchor[1].sm.response_rx_ts = <<1, 0>>

AllZero(v, n) == Len(v) = n /\ \A i \in 1..n : v[i] = 0

\* C15: AnchorSideStateMachine::new and TagSideStateMachine::new return a
\* machine in Idle whose scalar timestamps are 0, whose per-peer timestamp
\* slots (one per tag for the anchor, one per anchor for each of the tag's
\* five arrays) are all 0, and whose address and peer lists are the
\* arguments.
C15_Construction ==
    /\ (last.op = "new" /\ last.role = "anchor")
          => /\ anchor_sm # None
             /\ anchor_sm[1].state = "Idle"
             /\ anchor_sm[1].poll_tx_ts = 0
             /\ AllZero(anchor_sm[1].response_rx_ts, Len(last.hist.new_args.tags))
             /\ anchor_sm[1].address = last.hist.new_args.address
             /\ anchor_sm[1].anchor_addresses = last.hist.new_args.anchors
             /\ anchor_sm[1].tags = last.hist.new_args.tags
    /\ (last.op = "new" /\ last.role = "tag")
          => /\ tag_sm # None
             /\ tag_sm[1].state = "Idle"
             /\ tag_sm[1].response_tx_ts = 0
             /\ AllZero(tag_sm[1].poll_tx_ts, Len(last.hist.new_args.anchors))
             /\ AllZero(tag_sm[1].poll_rx_ts, Len(last.hist.new_args.anchors))
             /\ AllZero(tag_sm[1].response_rx_ts, Len(last.hist.new_args.anchors))
             /\ AllZero(tag_sm[1].final_tx_ts, Len(last.hist.new_args.anchors))
             /\ AllZero(tag_sm[1].final_rx_ts, Len(last.hist.new_args.anchors))
             /\ tag_sm[1].address = last.hist.new_args.address
             /\ tag_sm[1].anchors = last.hist.new_args.anchors
             /\ tag_sm[1].tags = last.hist.new_args.tags

\* A tag machine has been constructed for one anchor and two tags.
C15_Witness ==
    /\ last.op = "new" /\ last.role = "tag"
    /\ last.hist.new_args = [address |-> 1, anchors |-> <<11>>, tags |-> <<10, 11>>]
    /\ tag_sm # None
    /\ tag_sm[1].final_rx_ts = <<0>>

\* C16: in every state reachable from new by the typed and wrapper
\* transitions and the setters, each of the tag's poll_tx_ts, poll_rx_ts,
\* response_rx_ts, final_tx_ts and final_rx_ts has as many slots as the
\* anchors list, and the anchor's response_rx_ts has as many slots as the
\* tags list.
C16_ArrayLengths ==
    /\ TagMachine # None
          => /\ Len(TagMachine[1].poll_tx_ts) = Len(TagMachine[1].anchors)
             /\ Len(TagMachine[1].poll_rx_ts) = Len(TagMachine[1].anchors)
             /\ Len(TagMachine[1].response_rx_ts) = Len(TagMachine[1].anchors)
             /\ Len(TagMachine[1].final_tx_ts) = Len(TagMachine[1].anchors)
             /\ Len(TagMachine[1].final_rx_ts) = Len(TagMachine[1].anchors)
    /\ AnchorMachine # None
          => Len(AnchorMachine[1].response_rx_ts) = Len(AnchorMachine[1].tags)

\* A tag wrapper for one anchor and two tags has been moved in place, with
\* mem::take, to WaitingForAnchorFinal after a poll timestamp was written.
C16_Witness ==
    /\ last.role = "tag" /\ last.op = "to_waiting_for_anchor_final" /\ last.res = "Ok"
    /\ any_tag # None
    /\ any_tag[1].variant = "WaitingForAnchorFinal"
    /\ Len(any_tag[1].sm.anchors) = 1
    /\ Len(any_tag[1].sm.tags) = 2
    /\ any_tag[1].sm.poll_rx_ts = <<1>>

\* C17: for every packet type nibble 0..15, every reserved nibble 0..15
\* and every 40-bit timestamp, 0 and 2^40 - 1 included, a Poll packet
\* encodes to 6 bytes, a Response packet to 1 byte and a Final packet to 21
\* bytes, decoding the bytes yields a packet equal to the original, and
\* DeviceTimestamp::new(t).value() = t.
C17_CodecRoundTrip ==
    /\ wire # None
          => Len(wire[1]) = (CASE packet[1].kind = "Poll" -> 6
                               [] packet[1].kind = "Response" -> 1
                               [] packet[1].kind = "Final" -> 21)
    /\ decoded # None
          => /\ decoded[1].p = packet[1].p
             /\ decoded[1].timestamps = packet[1].timestamps
             /\ decoded[1].resv = packet[1].resv

\* A Final packet whose first byte has both nibbles 15 and whose four
\* timestamps are 0x12356789, 0, 0xDEADBEEF and 2^40 - 1 has been encoded
\* and read back.
C17_Witness ==
    /\ decoded # None
    /\ packet[1].kind = "Final" /\ packet[1].how = "bits"
    /\ packet[1].packet_type = 15 /\ packet[1].resv = 15
    /\ packet[1].timestamps =
          <<U40(18, 3499913), U40(0, 0), U40(222, 11386607), U40(65535, 16777215)>>
    /\ Len(wire[1]) = 21
    /\ wire[1][1] = 255
    /\ decoded[1].timestamps[4] = U40(65535, 16777215)

\* The 4-bit packet type field of the first byte on the wire.
WireTypeBits == wire[1][1] % 16

\* C18: decoding a 4-bit packet type never fails: 0 is Poll, 1 is Response,
\* 2 is Final and each of 3..15 is Reserved.
C18_PacketTypeDecodingTotal ==
    decoded # None
       => /\ WireTypeBits = 0 => decoded[1].packet_type = "Poll"
          /\ WireTypeBits = 1 => decoded[1].packet_type = "Response"
          /\ WireTypeBits = 2 => decoded[1].packet_type = "Final"
          /\ WireTypeBits \in 3..15 => decoded[1].packet_type = "Reserved"

\* A Response packet whose type bits are 9 has been read as Reserved.
C18_Witness ==
    /\ decoded # None
    /\ packet[1].kind = "Response" /\ packet[1].how = "bits"
    /\ packet[1].packet_type = 9
    /\ wire[1][1] % 16 = 9
    /\ decoded[1].packet_type = "Reserved"

\* The number of the packet type a packet was built with.
BuiltTypeBits ==
    IF packet[1].how = "bits" THEN packet[1].packet_type
    ELSE CASE packet[1].packet_type = "Poll" -> 0
           [] packet[1].packet_type = "Response" -> 1
           [] packet[1].packet_type = "Final" -> 2
           [] packet[1].packet_type = "Reserved" -> 3

\* Byte b (0 the least significant) of the 40-bit number t.
ByteOf(t, b) ==
    IF b < 3 THEN (t.lo \div (256 ^ b)) % 256 ELSE (t.hi \div (256 ^ (b - 3))) % 256

\* The Final packet of test_final_packet.
IsTestFinalPacket ==
    /\ packet[1].kind = "Final" /\ packet[1].how = "new"
    /\ packet[1].packet_type = "Final" /\ packet[1].resv = 0
    /\ packet[1].timestamps =
          <<U40(18, 3499913), U40(18, 3499913), U40(18, 3499913), U40(222, 11386607)>>

\* C19: a Final packet encodes to exactly 21 bytes: byte 0 is
\* type | (reserved << 4), bytes 1..5, 6..10 and 11..15 are rx_timestamps[0],
\* [1] and [2], bytes 16..20 are tx_timestamp, each timestamp as 5
\* little-endian bytes; for type Final, reserved 0, rx = 0x12356789 three
\* times and tx = 0xDEADBEEF the bytes are
\* 02 89 67 35 12 00 89 67 35 12 00 89 67 35 12 00 EF BE AD DE 00.
C19_FinalPacketLayout ==
    (wire # None /\ packet[1].kind = "Final")
       => /\ Len(wire[1]) = 21
          /\ wire[1][1] = BuiltTypeBits + 16 * packet[1].resv
          /\ \A slot \in 0..3, b \in 0..4 :
                wire[1][1 + (1 + 5 * slot + b)] = ByteOf(packet[1].timestamps[slot + 1], b)
          /\ IsTestFinalPacket
                => wire[1] = <<2, 137, 103, 53, 18, 0, 137, 103, 53, 18, 0,
                               137, 103, 53, 18, 0, 239, 190, 173, 222, 0>>

\* The Final packet of the test has been encoded.
C19_Witness ==
    /\ wire # None
    /\ IsTestFinalPacket
    /\ wire[1][17] = 239

\* The Poll and the Response packet of the tests.
IsTestPollPacket ==
    /\ packet[1].kind = "Poll" /\ packet[1].how = "new"
    /\ packet[1].packet_type = "Poll" /\ packet[1].resv = 0
    /\ packet[1].timestamps = <<U40(18, 3499913)>>

IsTestResponsePacket ==
    /\ packet[1].kind = "Response" /\ packet[1].how = "new"
    /\ packet[1].packet_type = "Response" /\ packet[1].resv = 0

\* C20: a Poll packet encodes to 6 little-endian bytes, byte 0 being
\* type | (reserved << 4) and bytes 1..5 the timestamp, least significant
\* byte first (Poll, reserved 0, 0x12356789 gives 00 89 67 35 12 00); a
\* Response packet encodes to the single byte type | (reserved << 4)
\* (Response, reserved 0 gives 01).
C20_PollResponseLayout ==
    /\ (wire # None /\ packet[1].kind = "Poll")
          => /\ Len(wire[1]) = 6
             /\ wire[1][1] = BuiltTypeBits + 16 * packet[1].resv
             /\ \A b \in 0..4 : wire[1][2 + b] = ByteOf(packet[1].timestamps[1], b)
             /\ IsTestPollPacket => wire[1] = <<0, 137, 103, 53, 18, 0>>
    /\ (wire # None /\ packet[1].kind = "Response")
          => /\ wire[1] = <<BuiltTypeBits + 16 * packet[1].resv>>
             /\ IsTestResponsePacket => wire[1] = <<1>>

\* A Poll packet of type Final with reserved bits 5 and timestamp
\* 0xDEADBEEF has been encoded.
C20_Witness ==
    /\ wire # None
    /\ packet[1].kind = "Poll" /\ packet[1].how = "new"
    /\ packet[1].packet_type = "Final" /\ packet[1].resv = 5
    /\ packet[1].timestamps = <<U40(222, 11386607)>>
    /\ wire[1] = <<82, 239, 190, 173, 222, 0>>

\* The call of frame_tx_time has returned.
AirReturned == air # None /\ air[1].out # None

\* C21: in frame_tx_time the number of SHR symbols is the configured
\* preamble length plus 8 at 850 kbps and the configured preamble length,
\* with no extension, at 6.8 Mbps; for PRF 16 MHz, preamble 128, 6.8 Mbps
\* and include_body = false the result is 128 x 994.
C21_ShrLength ==
    AirReturned
       => /\ air[1].config.bitrate = "Kbps850"
                => air[1].out[1].shr_len = PreambleSymbols(air[1].config.preamble_length) + 8
          /\ air[1].config.bitrate = "Kbps6800"
                => air[1].out[1].shr_len = PreambleSymbols(air[1].config.preamble_length)
          /\ (/\ air[1].config = [pulse_repetition_frequency |-> "Mhz16",
                                  preamble_length |-> "Symbols128",
                                  bitrate |-> "Kbps6800"]
              /\ ~air[1].include_body)
                => air[1].out[1].tx_time = 128 * 994

\* The number of 330-bit blocks b data bits start.
StartedBlocks(b) == (b + 329) \div 330

\* C22: with include_body = true and b = 8 x frame_len data bits,
\* frame_tx_time charges DAT time for exactly b + 48 x ceil(b / 330) bits:
\* no parity bit for frame_len = 0 and 48 for 1 <= b <= 330.
C22_ReedSolomonInflation ==
    (AirReturned /\ air[1].include_body)
       => air[1].out[1].frame_len
             = 8 * air[1].frame_len + 48 * StartedBlocks(8 * air[1].frame_len)

\* The symbol constants by segment, as the table lists them for the
\* supported bitrates.
ShrConstant(config) ==
    IF config.pulse_repetition_frequency = "Mhz16" THEN 994 ELSE 1018

DatConstant(config) ==
    IF config.bitrate = "Kbps850" THEN 1026 ELSE 129

\* C23: with include_body = false frame_tx_time returns only the SHR time,
\* the SHR symbol count times 994 for 16 MHz PRF and 1018 for 64 MHz PRF,
\* the same for every frame_len, and a repeated call with the same
\* arguments returns the same value; with include_body = true it returns
\* that SHR time plus 21 times the PHR constant plus the inflated bit count
\* times the DAT constant selected by PRF and bitrate.
C23_PreambleOnlyMode ==
    AirReturned
       => /\ ~air[1].include_body
                => /\ air[1].out[1].tx_time
                         = air[1].out[1].shr_len * ShrConstant(air[1].config)
                   /\ air[1].out[1].tx_time
                         = frame_tx_time(0, air[1].config, FALSE).tx_time
                   /\ air[1].out[1].tx_time
                         = frame_tx_time(MaxFrameLen, air[1].config, FALSE).tx_time
          /\ air[1].include_body
                => air[1].out[1].tx_time
                      = frame_tx_time(air[1].frame_len, air[1].config, FALSE).tx_time
                        + 21 * 1026
                        + air[1].out[1].frame_len * DatConstant(air[1].config)
          /\ air[1].out = air[1].first

\* frame_tx_time has been called twice for a 100-byte frame at 64 MHz PRF,
\* preamble 64 and 6.8 Mbps with the body included.
C23_Witness ==
    /\ AirReturned
    /\ air[1].calls = 2
    /\ air[1].include_body
    /\ air[1].frame_len = 100
    /\ air[1].config = [pulse_repetition_frequency |-> "Mhz64",
                        preamble_length |-> "Symbols64", bitrate |-> "Kbps6800"]
    /\ air[1].out[1].sym_timing_ind = 15

\* C30: for both PRFs, all ten preamble lengths, both bitrates, both values
\* of include_body and every frame_len from 0 to 1023 bytes, no value
\* computed in frame_tx_time (frame_len x 8, 48 x (bits + 329), bits x DAT
\* constant, the running sum) exceeds the 32-bit range, so the value
\* returned is the unbounded-integer result.
C30_AirtimeWithin32Bits ==
    AirReturned
       => /\ \A i \in 1..Len(air[1].out[1].steps) :
                /\ air[1].out[1].steps[i] # Overflow
                /\ air[1].out[1].steps[i] >= 0
                /\ air[1].out[1].steps[i] <= WordMax
          /\ air[1].out[1].tx_time # Overflow
          /\ air[1].include_body
                => air[1].out[1].tx_time
                      = air[1].out[1].shr_len * ShrConstant(air[1].config)
                        + 21 * 1026
                        + air[1].out[1].frame_len * DatConstant(air[1].config)

\* The largest case: 1023 bytes with the body, 64 MHz PRF, preamble 4096
\* and 850 kbps.
C30_Witness ==
    /\ AirReturned
    /\ air[1].include_body
    /\ air[1].frame_len = 1023
    /\ air[1].config = [pulse_repetition_frequency |-> "Mhz64",
                        preamble_length |-> "Symbols4096", bitrate |-> "Kbps850"]
    /\ air[1].out[1].tx_time = 13866390

AnchorInPlaceOps == {"to_waiting_for_response", "to_sending_final", "to_idle"}

TagInPlaceOps == {"to_waiting_for_anchor_poll", "to_waiting_for_anchor_final"}

C24_Step ==
    /\ (last'.role = "anchor" /\ last'.op \in AnchorInPlaceOps)
          => /\ any_anchor # None /\ any_anchor' # None
             /\ \A p \in AnchorPhases : any_anchor'[1].sm # Anchor_default(p)
             /\ last'.res = "Ok"
                   => any_anchor'[1].sm =
                         CASE last'.op = "to_waiting_for_response" ->
                                 Anchor_waiting_for_response(any_anchor[1].sm, last'.ts)
                           [] last'.op = "to_sending_final" ->
                                 Anchor_sending_final(any_anchor[1].sm)
                           [] last'.op = "to_idle" ->
                                 Anchor_idle(any_anchor[1].sm)
    /\ (last'.role = "tag" /\ last'.op \in TagInPlaceOps)
          => /\ any_tag # None /\ any_tag' # None
             /\ \A p \in TagPhases : any_tag'[1].sm # Tag_default(p)
             /\ last'.res = "Ok"
                   => any_tag'[1].sm =
                         CASE last'.op = "to_waiting_for_anchor_poll" ->
                                 Tag_waiting_for_anchor_poll(any_tag[1].sm)
                           [] last'.op = "to_waiting_for_anchor_final" ->
                                 Tag_waiting_for_anchor_final(any_tag[1].sm)

\* C24: whenever an in-place wrapper transition succeeds, the machine held
\* afterwards is field for field the result of the corresponding typed
\* transition applied to the machine held before, and the default machine
\* left behind by core::mem::take is never the wrapper's content after the
\* call returns.
C24_InPlaceRefinesTyped == [][C24_Step]_vars

\* to_idle has succeeded on a wrapper that holds a recorded response.
C24_Witness ==
    /\ last.role = "anchor" /\ last.op = "to_idle" /\ last.res = "Ok"
    /\ any_anchor # None
    /\ any_anchor[1].sm.address = 1
    /\ any_anchor[1].sm.tags = <<10, 11>>
    /\ any_anchor[1].sm.response_rx_ts = <<1, 1>>

\* The in-place transitions that would succeed on the wrapper w.
AnchorEnabledOps(w) ==
    {op \in {"to_waiting_for_response", "to_sending_final", "to_idle"} :
        CASE op = "to_waiting_for_response" ->
                \E ts \in Ts : AnyAnchor_to_waiting_for_response(w, ts).res = "Ok"
          [] op = "to_sending_final" -> AnyAnchor_to_sending_final(w).res = "Ok"
          [] op = "to_idle" -> AnyAnchor_to_idle(w).res = "Ok"}

AnchorNextPhase ==
    [Idle |-> "WaitingForResponse", WaitingForResponse |-> "SendingFinal",
     SendingFinal |-> "Idle"]

\* Exactly one in-place transition can succeed, and Idle is at most two
\* successful transitions away.
C25_State ==
    any_anchor # None
       => /\ Cardinality(AnchorEnabledOps(any_anchor[1])) = 1
          /\ \/ any_anchor[1].variant = "Idle"
             \/ AnyAnchor_to_idle(any_anchor[1]).res = "Ok"
             \/ /\ AnyAnchor_to_sending_final(any_anchor[1]).res = "Ok"
                /\ AnyAnchor_to_idle(AnyAnchor_to_sending_final(any_anchor[1]).w).res = "Ok"

\* The wrapper starts in Idle and its phase changes only to the next phase
\* of the cycle.
C25_Step ==
    /\ (any_anchor = None /\ any_anchor' # None) => any_anchor'[1].variant = "Idle"
    /\ (any_anchor # None /\ any_anchor' # None
        /\ any_anchor'[1].variant # any_anchor[1].variant)
          => any_anchor'[1].variant = AnchorNextPhase[any_anchor[1].variant]
    /\ any_anchor # None => any_anchor' # None

C25_InIdle == any_anchor # None /\ any_anchor[1].variant = "Idle"

C26_IdleImpliesClearedPoll ==
    /\ (AnchorMachine # None /\ AnchorMachine[1].state = "Idle")
          => AnchorMachine[1].poll_tx_ts = 0
    /\ (any_anchor # None /\ any_anchor[1].variant = "Idle")
          => any_anchor[1].sm.poll_tx_ts = 0

\* A machine owned by value is back in Idle after a round whose poll was
\* sent at 1.
C26_Witness ==
    /\ last.role = "anchor" /\ last.op = "idle"
    /\ last.hist.poll_given = 1
    /\ anchor_sm # None
    /\ anchor_sm[1].state = "Idle"
    /\ anchor_sm[1].poll_tx_ts = 0

\* C27: for both roles the machine's own address and its two address
\* lists are, in every reachable state, the values passed to new, whatever
\* successful or failed transitions, setters and probes were applied.
C27_ConfigurationImmutable ==
    /\ AnchorMachine # None
          => /\ AnchorMachine[1].address = last.hist.new_args.address
             /\ AnchorMachine[1].anchor_addresses = last.hist.new_args.anchors
             /\ AnchorMachine[1].tags = last.hist.new_args.tags
    /\ TagMachine # None
          => /\ TagMachine[1].address = last.hist.new_args.address
             /\ TagMachine[1].anchors = last.hist.new_args.anchors
             /\ TagMachine[1].tags = last.hist.new_args.tags

\* A tag wrapper that was written to has refused a transition.
C27_Witness ==
    /\ last.role = "tag" /\ last.op = "to_waiting_for_anchor_poll" /\ last.res = "Err"
    /\ tag_writes = 1
    /\ any_tag # None
    /\ any_tag[1].variant = "WaitingForAnchorFinal"
    /\ any_tag[1].sm.address = 1
    /\ any_tag[1].sm.anchors = <<11, 10>>
    /\ any_tag[1].sm.tags = <<10, 11>>

\* The response slots hold what was last written to them since new.
C28_State ==
    AnchorMachine # None => AnchorMachine[1].response_rx_ts = last.hist.set_ever

C28_Step ==
    (last'.role = "anchor" /\ last'.op = "get_response_rx_ts" /\ last'.res = "Value")
       => /\ AnchorMachine # None /\ AnchorMachine[1].state = "SendingFinal"
          /\ last'.out = Some(last.hist.set_ever[last'.idx + 1])

\* C28: in SendingFinal of any round get_response_rx_ts(i) returns the
\* value of the most recent set_response_rx_ts(i, v) since construction, 0
\* if there was none, so a slot not written in the current round reads the
\* value recorded in an earlier round; no transition zeroes a slot.
C28_ResponseSlotsPersist == []C28_State /\ [][C28_Step]_vars

\* In a later round, whose poll was sent at 0, a slot that this round did
\* not write has been read, and it holds the 1 of an earlier round.
C28_Witness ==
    /\ last.role = "anchor" /\ last.op = "get_response_rx_ts" /\ last.res = "Value"
    /\ last.idx = 0 /\ last.out = <<1>>
    /\ last.hist.poll_given = 0
    /\ last.hist.set_in_phase = <<-1, -1>>
    /\ last.hist.set_ever = <<1, 0>>

TagTransitionOps ==
    {"waiting_for_anchor_poll", "waiting_for_anchor_final", "idle",
     "to_waiting_for_anchor_poll", "to_waiting_for_anchor_final"}

C29_Step ==
    (last'.role = "tag" /\ last'.op \in TagTransitionOps)
       => /\ TagMachine # None /\ TagMachine' # None
          /\ TagMachine'[1].poll_tx_ts = TagMachine[1].poll_tx_ts
          /\ TagMachine'[1].poll_rx_ts = TagMachine[1].poll_rx_ts
          /\ TagMachine'[1].response_tx_ts = TagMachine[1].response_tx_ts
          /\ TagMachine'[1].response_rx_ts = TagMachine[1].response_rx_ts
          /\ TagMachine'[1].final_tx_ts = TagMachine[1].final_tx_ts
          /\ TagMachine'[1].final_rx_ts = TagMachine[1].final_rx_ts

\* C29: each typed tag transition and each in-place tag wrapper transition
\* leaves poll_tx_ts, poll_rx_ts, response_tx_ts, response_rx_ts,
\* final_tx_ts and final_rx_ts unchanged, so the Idle machine after
\* WaitingForAnchorFinal -> Idle holds the round's values and the next
\* round starts with them.
C29_TagTransitionsKeepTimestamps == [][C29_Step]_vars

\* A second round has started with the final timestamp of the first.
C29_Witness ==
    /\ last.role = "tag" /\ last.op = "waiting_for_anchor_poll"
    /\ tag_sm # None
    /\ tag_sm[1].state = "WaitingForAnchorPoll"
    /\ tag_sm[1].final_rx_ts = <<0, 1>>

====
